---------------------------- MODULE Spec2Model ----------------------------
(***************************************************************************)
(* Libera backend: the alert lifecycle (models/alert.ts), the signed audit *)
(* log (models/audit.ts, the audit_log table), the rules engine            *)
(* (services/rulesEngine.ts, models/ruleDefinition.ts), the chain of       *)
(* custody (models/evidence.ts) and the alert routes as state machines.    *)
(*                                                                         *)
(* The specifications share the variables; each moves one subsystem and    *)
(* leaves the others at their initial value:                               *)
(*   SpecAlert       - AlertModel.create / acknowledge / resolve / dismiss *)
(*   SpecAudit       - AuditModel.create by concurrent callers, the read   *)
(*                     operations, verifyIntegrity and getAuditorExport    *)
(*   SpecAuditTamper - the same with one caller, and stored rows modified  *)
(*                     behind AuditModel's back                            *)
(*   SpecRules       - RuleDefinitionModel.create, RulesEngine.loadRules   *)
(*                     and processEvidence, for documents that compilation *)
(*                     should refuse                                       *)
(*   SpecEval        - the same for well-formed documents and every kind   *)
(*                     of evidence item                                    *)
(*   SpecReload      - processEvidence with concurrent reloads of rules     *)
(*   SpecCustody     - updateChainOfCustody, findEvidenceWithCustodyGaps   *)
(*   SpecAudited     - the engine and the acknowledge / resolve / dismiss  *)
(*                     routes with their audit entries, under fairness     *)
(*   SpecSections    - the engine on documents with two condition lists,   *)
(*                     tests of absence and a condition without a field    *)
(*   SpecStore       - deactivate / update / delete of a definition, two   *)
(*                     concurrent loadRules, and processCase               *)
(*   SpecFrame       - the same with one loadRules at a time, at two       *)
(*                     readings of the clock                               *)
(***************************************************************************)
EXTENDS Integers, Sequences, FiniteSets, TLC

VARIABLES
    now,            \* the clock, in the resolution of SQL NOW() (half milliseconds)
    alerts,         \* the alerts table: a sequence of rows, row i has id i
    alertCall,      \* the last AlertModel call: its arguments and outcome
    audit_log,      \* the audit_log table: rows in insertion order
    audit_seq,      \* the BIGSERIAL sequence behind audit_log.id
    auditProc,      \* per caller: where its AuditModel.create stands
    auditCall,      \* the last completed AuditModel read/verify/export call
    tamperCount,    \* how many stored rows were modified outside AuditModel
    verifiedOk,     \* history: the rows verifyIntegrity has returned true for
    maxReturnedId,  \* history: largest id a returned create has handed out
    rule_defs,      \* the rule_defs table: rows in insertion order
    rules,          \* RulesEngine.rules, the compiled rule array
    loadProc,       \* per caller of loadRules: where the call stands, the rows read
    peProc,         \* the processEvidence call in flight
    pendingAlerts,  \* alert creations started by executeActions, in flight
    engineCall,     \* the last processEvidence call that returned
    rejections,     \* alert creations that failed with nothing awaiting them
    evidence_items, \* the evidence_items table: evidence id -> row
    custodyCall,    \* the last custody call of EvidenceModel and its outcome
    routeProc,      \* the alert route in flight: its model call done, audit due
    caseProc,       \* the processCase call in flight: the items still to process
    caseCall,       \* the last processCase call: the processEvidence calls it made
    retired         \* history: ids deactivated before a loadRules that has completed

alertVars == <<alerts, alertCall>>
auditVars == <<audit_log, audit_seq, auditProc, auditCall, tamperCount, verifiedOk,
              maxReturnedId>>
rulesVars == <<rule_defs, rules, loadProc, peProc, pendingAlerts, engineCall,
              rejections>>
evidenceVars == <<evidence_items, custodyCall>>
routeVars == <<routeProc>>
caseVars == <<caseProc, caseCall>>
vars == <<now, alertVars, auditVars, rulesVars, evidenceVars, routeVars, caseVars,
          retired>>

----------------------------------------------------------------------------
(* Bounds of the model *)

MaxClock == 2
MaxAlerts == 2
MaxAuditRows == 2
MaxTamper == 1
MaxRuleDefs == 2
MaxFailures == 1
MaxChain == 3
MaxFrameClock == 1

----------------------------------------------------------------------------
(* Values shared by the three subsystems *)

\* JavaScript undefined (an argument or property that was not given)
UNDEFINED == "undefined"
\* SQL NULL / JavaScript null
NULL == "null"
\* A nullable timestamp column: no value, or the clock value t
NoTime == <<>>
At(t) == <<t>>
\* node-postgres sends an undefined parameter as NULL
ToColumn(v) == IF v = UNDEFINED THEN NULL ELSE v

Tick ==
    /\ now < MaxClock
    /\ now' = now + 1
    /\ UNCHANGED <<caseVars, retired, alertVars, auditVars, rulesVars, evidenceVars,
                   routeVars>>

----------------------------------------------------------------------------
(* AlertModel (models/alert.ts) *)

UserIds == {"u1", "u2"}
CaseIds == {"c1"}
Severities == {"low", "medium", "high"}
NoteInputs == {UNDEFINED, "n1"}
ResolveNoteInputs == {"n2"}
ReasonInputs == {"r1"}
AlertIdInputs == 1..(MaxAlerts + 1)

\* Alert['status']
AlertStatuses == {"pending", "acknowledged", "resolved", "dismissed"}

\* INSERT INTO alerts (...) RETURNING *: the columns not given take their
\* defaults (status 'pending', the acknowledge/resolution columns NULL)
AlertRow(data) ==
    [case_id |-> data.case_id,
     rule_id |-> data.rule_id,
     severity |-> data.severity,
     explanation |-> data.explanation,
     evidence_refs |-> data.evidence_refs,
     src_rule |-> data.src_rule,     \* history: the rule whose action asked for it
     status |-> "pending",
     acknowledged_by |-> NULL,
     acknowledged_at |-> NoTime,
     resolution_notes |-> NULL]

\* UPDATE alerts SET acknowledged_by = $2, acknowledged_at = NOW(),
\*   resolution_notes = $3, status = 'acknowledged' WHERE id = $1
AcknowledgeUpdate(row, userId, resolutionNotes, t) ==
    [row EXCEPT !.acknowledged_by = userId,
                !.acknowledged_at = At(t),
                !.resolution_notes = ToColumn(resolutionNotes),
                !.status = "acknowledged"]

\* UPDATE alerts SET resolution_notes = $2, status = 'resolved' WHERE id = $1
ResolveUpdate(row, resolutionNotes) ==
    [row EXCEPT !.resolution_notes = resolutionNotes,
                !.status = "resolved"]

\* UPDATE alerts SET resolution_notes = $2, status = 'dismissed' WHERE id = $1
\* with $2 = `Dismissed: ${reason}`
DismissUpdate(row, reason) ==
    [row EXCEPT !.resolution_notes = "Dismissed: " \o reason,
                !.status = "dismissed"]

NoAlertCall == [op |-> "none", alertId |-> 0, outcome |-> "none", parity |-> 0]

\* What a call leaves in alertCall: the operation, its alert id, whether it
\* returned the updated row ("ok") or threw, and the parity of the number of
\* calls so far (two calls in a row never leave the same value)
AlertCallOf(op, alertId, found) ==
    [op |-> op,
     alertId |-> alertId,
     outcome |-> IF found THEN "ok" ELSE "Alert not found",
     parity |-> 1 - alertCall.parity]

AlertCreateInputs ==
    [case_id : CaseIds, rule_id : {"unknown"}, severity : {"medium"},
     explanation : {"m1"}, evidence_refs : {<<"e1">>}, src_rule : {"none"}]

AlertModel_create(data) ==
    /\ Len(alerts) < MaxAlerts
    /\ alerts' = Append(alerts, AlertRow(data))
    /\ alertCall' = AlertCallOf("create", Len(alerts) + 1, TRUE)
    /\ UNCHANGED <<now, caseVars, retired, auditVars, rulesVars, evidenceVars, routeVars>>

acknowledge(alertId, userId, resolutionNotes) ==
    LET found == alertId \in DOMAIN alerts IN
    /\ alerts' = IF found
                 THEN [alerts EXCEPT ![alertId] =
                          AcknowledgeUpdate(@, userId, resolutionNotes, now)]
                 ELSE alerts
    /\ alertCall' = AlertCallOf("acknowledge", alertId, found)
    /\ UNCHANGED <<now, caseVars, retired, auditVars, rulesVars, evidenceVars, routeVars>>

resolve(alertId, resolutionNotes) ==
    LET found == alertId \in DOMAIN alerts IN
    /\ alerts' = IF found
                 THEN [alerts EXCEPT ![alertId] = ResolveUpdate(@, resolutionNotes)]
                 ELSE alerts
    /\ alertCall' = AlertCallOf("resolve", alertId, found)
    /\ UNCHANGED <<now, caseVars, retired, auditVars, rulesVars, evidenceVars, routeVars>>

dismiss(alertId, reason) ==
    LET found == alertId \in DOMAIN alerts IN
    /\ alerts' = IF found
                 THEN [alerts EXCEPT ![alertId] = DismissUpdate(@, reason)]
                 ELSE alerts
    /\ alertCall' = AlertCallOf("dismiss", alertId, found)
    /\ UNCHANGED <<now, caseVars, retired, auditVars, rulesVars, evidenceVars, routeVars>>

----------------------------------------------------------------------------
(* AuditModel (models/audit.ts) over the audit_log table *)

AuditCallers == {"p1", "p2"}
TargetTypes == {"alert", "case"}

\* CreateAuditEntryData as the callers build it: with every property given
\* (routes of models/subject.ts), and with the optional user_id, details,
\* ip_address and user_agent left out
AuditEntryInputs ==
    {[user_id |-> "u1", action |-> "alert_acknowledged", target_type |-> "alert",
      target_id |-> "t1", details |-> "d1", ip_address |-> "ip1", user_agent |-> "ua1"],
     [user_id |-> UNDEFINED, action |-> "case_created", target_type |-> "case",
      target_id |-> "t1", details |-> UNDEFINED, ip_address |-> UNDEFINED,
      user_agent |-> UNDEFINED]}

\* The millisecond a JavaScript Date holds for the clock value t: new Date()
\* reads the clock to the millisecond, and node-postgres hands a TIMESTAMPTZ
\* column (microseconds) over as a Date, its sub-millisecond part dropped.
\* The clock of the model counts half milliseconds.
JsDate(t) == t \div 2
\* A Date passed as a query parameter, as the database compares it
DbTime(d) == d * 2

\* Date.prototype.toISOString / toJSON of the Date d
Date_toISOString(d) == "T" \o ToString(d)

\* A stored row as client.query returns it
Fetched(row) == [row EXCEPT !.timestamp = JsDate(@)]

\* One member of a JSON object text; JSON.stringify leaves out a property
\* whose value is undefined and writes null for null
JsonMember(key, value) ==
    IF value = UNDEFINED THEN ""
    ELSE "\"" \o key \o "\":" \o (IF value = NULL THEN NULL ELSE "\"" \o value \o "\"")

RECURSIVE JsonJoin(_)
JsonJoin(members) ==
    IF members = <<>> THEN ""
    ELSE IF Len(members) = 1 THEN members[1]
    ELSE members[1] \o "," \o JsonJoin(Tail(members))

\* JSON.stringify({user_id, action, target_type, target_id, details,
\*                 timestamp, ip_address, user_agent})
JSON_stringify(o) ==
    "{" \o JsonJoin(SelectSeq(
        <<JsonMember("user_id", o.user_id),
          JsonMember("action", o.action),
          JsonMember("target_type", o.target_type),
          JsonMember("target_id", o.target_id),
          JsonMember("details", o.details),
          JsonMember("timestamp", o.timestamp),
          JsonMember("ip_address", o.ip_address),
          JsonMember("user_agent", o.user_agent)>>,
        LAMBDA m : m # "")) \o "}"

\* crypto.createHash('sha256').update(data).digest('hex'), taken as
\* collision free: distinct texts have distinct digests
sha256(data) == "sha256:" \o data

\* create: the text signed at write time, from the caller's entry and the
\* application clock
CreateSignatureData(entry, t) ==
    JSON_stringify([user_id |-> entry.user_id,
                    action |-> entry.action,
                    target_type |-> entry.target_type,
                    target_id |-> entry.target_id,
                    details |-> entry.details,
                    timestamp |-> Date_toISOString(JsDate(t)),
                    ip_address |-> entry.ip_address,
                    user_agent |-> entry.user_agent])

\* verifyIntegrity: the text rebuilt from the fetched row
VerifySignatureData(row) ==
    JSON_stringify([user_id |-> row.user_id,
                    action |-> row.action,
                    target_type |-> row.target_type,
                    target_id |-> row.target_id,
                    details |-> row.details,
                    timestamp |-> Date_toISOString(row.timestamp),
                    ip_address |-> row.ip_address,
                    user_agent |-> row.user_agent])

\* A faulty variant: the id read with currval once the sequence has started
NextVal_currval(seq) == IF seq = 0 THEN 1 ELSE seq

\* nextval of the BIGSERIAL sequence audit_log_id_seq
NextVal(seq) == seq + 1

\* INSERT INTO audit_log (user_id, action, target_type, target_id, details,
\*   ip_address, user_agent, signature): id from the sequence, timestamp
\*   DEFAULT NOW(); a JSONB details value reads back as it was written
AuditRow(id, entry, signature, t) ==
    [id |-> id,
     user_id |-> ToColumn(entry.user_id),
     action |-> entry.action,
     target_type |-> entry.target_type,
     target_id |-> ToColumn(entry.target_id),
     details |-> ToColumn(entry.details),
     timestamp |-> t,
     ip_address |-> ToColumn(entry.ip_address),
     user_agent |-> ToColumn(entry.user_agent),
     signature |-> signature]

\* A faulty variant: an upsert that replaces the newest row
InsertAuditRow_upsert(log, row) ==
    IF log = <<>> THEN <<row>> ELSE [log EXCEPT ![Len(log)] = row]

\* The table after the INSERT
InsertAuditRow(log, row) == Append(log, row)

\* SELECT * FROM audit_log WHERE id = $1: the positions of the matching rows
RowsWithId(log, id) == {i \in DOMAIN log : log[i].id = id}

\* The comparison verifyIntegrity returns for a stored row
SignatureMatches(row) == row.signature = sha256(VerifySignatureData(Fetched(row)))

IdleProc == [pc |-> "idle", entry |-> <<>>, signature |-> "", startFloor |-> 0, id |-> 0]

NoAuditCall == [op |-> "none", args |-> <<>>, result |-> <<>>]

Max(a, b) == IF a >= b THEN a ELSE b

\* Creates in flight that have not inserted their row yet
CreatesQuerying == {p \in AuditCallers : auditProc[p].pc = "query"}

\* create, lines 29-62: the caller's entry is signed with the application
\* clock and the INSERT is sent
AuditModel_create_call(p, entry) ==
    /\ auditProc[p].pc = "idle"
    /\ Len(audit_log) + Cardinality(CreatesQuerying) < MaxAuditRows
    /\ auditProc' = [auditProc EXCEPT ![p] =
            [pc |-> "query",
             entry |-> entry,
             signature |-> sha256(CreateSignatureData(entry, now)),
             startFloor |-> maxReturnedId,
             id |-> 0]]
    /\ auditCall' = NoAuditCall
    /\ UNCHANGED <<now, caseVars, retired,
                   audit_log, audit_seq, tamperCount, verifiedOk, maxReturnedId,
                   alertVars, rulesVars,
                   evidenceVars, routeVars>>

\* create, line 64: the database runs the INSERT
AuditModel_create_insert(p) ==
    /\ auditProc[p].pc = "query"
    /\ LET id == NextVal(audit_seq) IN
       /\ audit_seq' = id
       /\ audit_log' = InsertAuditRow(audit_log,
              AuditRow(id, auditProc[p].entry, auditProc[p].signature, now))
       /\ auditProc' = [auditProc EXCEPT ![p].pc = "inserted", ![p].id = id]
    /\ auditCall' = NoAuditCall
    /\ UNCHANGED <<now, caseVars, retired,
                   tamperCount, verifiedOk, maxReturnedId, alertVars, rulesVars,
                   evidenceVars, routeVars>>

\* mapRowToAuditEntry hands the details of the row to JSON.parse when it is
\* not null; the driver has parsed this JSONB column already, and JSON.parse
\* of the object (of its string form "[object Object]") throws a SyntaxError
mapRowToAuditEntryThrows(row) == row.details # NULL

\* What a caller gets from a call that rejects with that error
Rejected == <<[error |-> "SyntaxError"]>>

\* create, lines 66-67: the inserted row is mapped and returned to the
\* caller; when the mapping throws the call rejects, its row inserted
AuditModel_create_return(p) ==
    /\ auditProc[p].pc = "inserted"
    /\ maxReturnedId' =
          IF \E i \in RowsWithId(audit_log, auditProc[p].id) :
                mapRowToAuditEntryThrows(audit_log[i])
          THEN maxReturnedId
          ELSE Max(maxReturnedId, auditProc[p].id)
    /\ auditProc' = [auditProc EXCEPT ![p] = IdleProc]
    /\ auditCall' = NoAuditCall
    /\ UNCHANGED <<now, caseVars, retired,
                   audit_log, audit_seq, tamperCount, verifiedOk, alertVars, rulesVars,
                   evidenceVars, routeVars>>

\* mapRowToAuditEntry of a fetched row it does not throw on: the NULL
\* details column becomes undefined
mapRowToAuditEntry(row) == [row EXCEPT !.details = UNDEFINED]

\* The orders in which the database may return the rows at positions S for
\* ORDER BY timestamp (DESC when desc): rows of equal timestamp in any order
OrderedByTimestamp(log, S, desc) ==
    {q \in [1..Cardinality(S) -> S] :
        /\ \A i, j \in DOMAIN q : i # j => q[i] # q[j]
        /\ \A i \in DOMAIN q : i < Len(q) =>
              IF desc THEN log[q[i]].timestamp >= log[q[i + 1]].timestamp
                      ELSE log[q[i]].timestamp <= log[q[i + 1]].timestamp}

\* LIMIT n
Limit(q, n) == SubSeq(q, 1, IF n < Len(q) THEN n ELSE Len(q))

\* The results a SELECT * ... ORDER BY timestamp DESC LIMIT n may return for
\* the rows at positions S
SelectDesc(log, S, n) ==
    {IF \E i \in DOMAIN Limit(q, n) : mapRowToAuditEntryThrows(log[q[i]])
     THEN Rejected
     ELSE [i \in DOMAIN Limit(q, n) |-> mapRowToAuditEntry(Fetched(log[q[i]]))] :
        q \in OrderedByTimestamp(log, S, TRUE)}

\* A read operation: the table is only read, the result goes to the caller
AuditRead(op, args, results) ==
    /\ \E r \in results : auditCall' = [op |-> op, args |-> args, result |-> r]
    /\ UNCHANGED <<now, caseVars, retired,
                   audit_log, audit_seq, auditProc, tamperCount, verifiedOk,
                   maxReturnedId, alertVars, rulesVars,
                   evidenceVars, routeVars>>

\* What findById(id) may hand to its caller when the table is log: nothing
\* for a missing row, the mapped row, or the error of the mapping
FindByIdResults(log, id) ==
    IF RowsWithId(log, id) = {} THEN {<<>>}
    ELSE {IF mapRowToAuditEntryThrows(log[i]) THEN Rejected
          ELSE <<mapRowToAuditEntry(Fetched(log[i]))>> :
             i \in RowsWithId(log, id)}

AuditModel_findById(id) == AuditRead("findById", <<id>>, FindByIdResults(audit_log, id))

findByUser(userId, limit) ==
    AuditRead("findByUser", <<userId, limit>>,
        SelectDesc(audit_log,
            {i \in DOMAIN audit_log : audit_log[i].user_id = userId}, limit))

findByTarget(targetType, targetId, limit) ==
    AuditRead("findByTarget", <<targetType, targetId, limit>>,
        SelectDesc(audit_log,
            {i \in DOMAIN audit_log : /\ audit_log[i].target_type = targetType
                                      /\ audit_log[i].target_id = targetId}, limit))

findByAction(action, limit) ==
    AuditRead("findByAction", <<action, limit>>,
        SelectDesc(audit_log,
            {i \in DOMAIN audit_log : audit_log[i].action = action}, limit))

findByDateRange(startDate, endDate, limit) ==
    AuditRead("findByDateRange", <<startDate, endDate, limit>>,
        SelectDesc(audit_log,
            {i \in DOMAIN audit_log : /\ audit_log[i].timestamp >= DbTime(startDate)
                                      /\ audit_log[i].timestamp <= DbTime(endDate)}, limit))

getRecentActivity(limit) ==
    AuditRead("getRecentActivity", <<limit>>,
        SelectDesc(audit_log, DOMAIN audit_log, limit))

\* verifyIntegrity's return value: false when no row has the id, otherwise
\* whether the stored signature is the digest rebuilt from the row
VerifyResult(log, entryId) ==
    /\ RowsWithId(log, entryId) # {}
    /\ \A i \in RowsWithId(log, entryId) : SignatureMatches(log[i])

\* A verification that repairs: a row that does not verify is signed anew
verifyIntegrity_resign(entryId) ==
    LET result == VerifyResult(audit_log, entryId) IN
    /\ auditCall' = [op |-> "verifyIntegrity", args |-> <<entryId>>, result |-> result]
    /\ audit_log' = [i \in DOMAIN audit_log |->
                       IF audit_log[i].id = entryId
                       THEN [audit_log[i] EXCEPT !.signature =
                               sha256(VerifySignatureData(Fetched(audit_log[i])))]
                       ELSE audit_log[i]]
    /\ verifiedOk' = IF result
                     THEN verifiedOk \cup {audit_log[i] : i \in RowsWithId(audit_log, entryId)}
                     ELSE verifiedOk
    /\ UNCHANGED <<now, caseVars, retired,
                   audit_seq, auditProc, tamperCount, maxReturnedId,
                   alertVars, rulesVars,
                   evidenceVars, routeVars>>

\* verifyIntegrity: one SELECT, the comparison returned (verifiedOk is
\* history); nothing is written
verifyIntegrity(entryId) ==
    LET result == VerifyResult(audit_log, entryId) IN
    /\ auditCall' = [op |-> "verifyIntegrity", args |-> <<entryId>>, result |-> result]
    /\ verifiedOk' = IF result
                     THEN verifiedOk \cup {audit_log[i] : i \in RowsWithId(audit_log, entryId)}
                     ELSE verifiedOk
    /\ UNCHANGED <<now, caseVars, retired,
                   audit_log, audit_seq, auditProc, tamperCount, maxReturnedId,
                   alertVars, rulesVars,
                   evidenceVars, routeVars>>

\* A faulty variant: the export keeps the actor
ExportRecord_withUser(row) ==
    [id |-> row.id, action |-> row.action,
     target_type |-> row.target_type, timestamp |-> row.timestamp,
     user_id |-> row.user_id]

\* The record getAuditorExport builds from a fetched row
ExportRecord(row) ==
    [id |-> row.id, action |-> row.action,
     target_type |-> row.target_type, timestamp |-> row.timestamp]

\* SELECT id, action, target_type, timestamp FROM audit_log
\*   WHERE timestamp >= $1 AND timestamp <= $2 [AND target_type = $3]
\*   ORDER BY timestamp ASC
ExportSelection(log, startDate, endDate, targetType) ==
    {i \in DOMAIN log :
        /\ log[i].timestamp >= DbTime(startDate)
        /\ log[i].timestamp <= DbTime(endDate)
        /\ (targetType # UNDEFINED => log[i].target_type = targetType)}

\* Every result getAuditorExport may return
AuditorExports(log, startDate, endDate, targetType) ==
    {[i \in DOMAIN q |-> ExportRecord(Fetched(log[q[i]]))] :
        q \in OrderedByTimestamp(log,
                 ExportSelection(log, startDate, endDate, targetType), FALSE)}

getAuditorExport(startDate, endDate, targetType) ==
    AuditRead("getAuditorExport", <<startDate, endDate, targetType>>,
        AuditorExports(audit_log, startDate, endDate, targetType))

\* The values a stored column can be changed to by an UPDATE issued against
\* the table directly (the table carries no trigger or rule against it)
ColumnValues(field) ==
    CASE field = "user_id" -> {NULL, "u1", "u2"}
      [] field = "action" -> {"alert_acknowledged", "case_created"}
      [] field = "target_type" -> TargetTypes
      [] field = "target_id" -> {NULL, "t1", "t2"}
      [] field = "details" -> {NULL, "d1", "d2"}
      [] field = "timestamp" -> 0..MaxClock
      [] field = "ip_address" -> {NULL, "ip1", "ip2"}
      [] field = "user_agent" -> {NULL, "ua1", "ua2"}
      [] field = "signature" ->
            {"forged"} \cup {sha256(CreateSignatureData(e, 0)) : e \in AuditEntryInputs}

SignedFields ==
    {"user_id", "action", "target_type", "target_id", "details", "timestamp",
     "ip_address", "user_agent"}
PersistedFields == SignedFields \cup {"signature"}

SetColumn(row, field, value) ==
    CASE field = "user_id" -> [row EXCEPT !.user_id = value]
      [] field = "action" -> [row EXCEPT !.action = value]
      [] field = "target_type" -> [row EXCEPT !.target_type = value]
      [] field = "target_id" -> [row EXCEPT !.target_id = value]
      [] field = "details" -> [row EXCEPT !.details = value]
      [] field = "timestamp" -> [row EXCEPT !.timestamp = value]
      [] field = "ip_address" -> [row EXCEPT !.ip_address = value]
      [] field = "user_agent" -> [row EXCEPT !.user_agent = value]
      [] field = "signature" -> [row EXCEPT !.signature = value]

\* UPDATE audit_log SET <field> = <value> WHERE id = ..., not an AuditModel
\* operation: something with access to the table changes one stored column
ModifyStoredRow(i, field, value) ==
    /\ tamperCount < MaxTamper
    /\ i \in DOMAIN audit_log
    /\ SetColumn(audit_log[i], field, value) # audit_log[i]
    /\ audit_log' = [audit_log EXCEPT ![i] = SetColumn(@, field, value)]
    /\ tamperCount' = tamperCount + 1
    /\ auditCall' = NoAuditCall
    /\ UNCHANGED <<now, caseVars, retired,
                   audit_seq, auditProc, verifiedOk, maxReturnedId, alertVars, rulesVars,
                   evidenceVars, routeVars>>

----------------------------------------------------------------------------
(* JavaScript values of rule documents and fact contexts, tagged by type *)

Undef == <<"undefined">>
Null == <<"null">>
Str(s) == <<"string", s>>
Num(n) == <<"number", n>>
Bool(b) == <<"boolean", b>>
DateV(t) == <<"date", t>>
Arr(items) == <<"array", items>>
Obj(props) == <<"object", props>>

TypeOf(v) == v[1]
IsNullish(v) == TypeOf(v) \in {"undefined", "null"}

\* ToBoolean
Truthy(v) ==
    CASE TypeOf(v) \in {"undefined", "null"} -> FALSE
      [] TypeOf(v) = "string" -> v[2] # ""
      [] TypeOf(v) = "number" -> v[2] # 0
      [] TypeOf(v) = "boolean" -> v[2]
      [] OTHER -> TRUE

\* a || b
JsOr(a, b) == IF Truthy(a) THEN a ELSE b

\* o.key on a value that is not null or undefined: a missing property, and
\* any property of a primitive, is undefined (the keys read are names of
\* data fields, none of them the name of a member of Object.prototype)
Prop(o, key) ==
    IF TypeOf(o) = "object" /\ key \in DOMAIN o[2] THEN o[2][key] ELSE Undef

\* a === b: primitives by type and value; objects, arrays and Dates by
\* identity, and no two values compared here are the same object
StrictEquals(a, b) ==
    /\ TypeOf(a) = TypeOf(b)
    /\ TypeOf(a) \in {"undefined", "null", "string", "number", "boolean"}
    /\ a = b

\* String(v)
ToJsString(v) ==
    CASE TypeOf(v) = "string" -> v[2]
      [] TypeOf(v) = "number" -> ToString(v[2])
      [] TypeOf(v) = "boolean" -> IF v[2] THEN "true" ELSE "false"
      [] TypeOf(v) = "date" -> "Date(" \o ToString(v[2]) \o ")"
      [] TypeOf(v) = "object" -> "[object Object]"
      [] TypeOf(v) = "array" -> "[array]"
      [] OTHER -> v[1]

----------------------------------------------------------------------------
(* Rule definitions (models/ruleDefinition.ts) and the documents js-yaml   *)
(* parses them to                                                          *)

\* A yaml_definition text: one js-yaml cannot parse, or one it parses to doc
YamlError == <<"yaml-error">>
Yaml(doc) == <<"yaml", doc>>

\* A condition entry of a document
Cond(field, operator, value) ==
    Obj([field |-> Str(field), operator |-> Str(operator), value |-> value])

\* An action entry of a document; the message is a template: its parts are
\* literal text and {{key}} placeholders
Text(s) == <<"text", s>>
Placeholder(key) == <<"placeholder", key>>
Action(severity, message) ==
    Obj([type |-> Str("create_alert"), severity |-> Str(severity),
         message |-> <<"template", message>>])

TypeIsPhoto == Cond("evidence.type", "==", Str("photo"))
AlertHigh == Action("high", <<Text("Flagged "), Placeholder("evidence.id")>>)

\* name, when and actions, every operator one mapOperator knows
DocValid ==
    Yaml(Obj([name |-> Str("photo_check"),
              when |-> Arr(<<TypeIsPhoto>>),
              actions |-> Arr(<<AlertHigh>>)]))
\* a condition whose operator no one knows
DocUnknownOperator ==
    Yaml(Obj([name |-> Str("photo_match"),
              when |-> Arr(<<Cond("evidence.type", "matches", Str("photo"))>>),
              actions |-> Arr(<<AlertHigh>>)]))
\* no action section at all (neither actions nor on_failure)
DocNoActions ==
    Yaml(Obj([name |-> Str("photo_silent"),
              when |-> Arr(<<TypeIsPhoto>>)]))

\* no condition list at all (neither when nor conditions)
DocNoConditions ==
    Yaml(Obj([name |-> Str("unconditional"),
              actions |-> Arr(<<Action("low", <<Text("Always")>>)>>)]))
\* two conditions: the case is active and the item is a photo
DocTwoConditions ==
    Yaml(Obj([name |-> Str("active_photo"),
              when |-> Arr(<<Cond("case.status", "==", Str("active")),
                             TypeIsPhoto>>),
              actions |-> Arr(<<Action("medium",
                                       <<Text("Photo "), Placeholder("missing"),
                                         Text(" in "), Placeholder("case.id")>>)>>)]))

\* the document of the default rule R-010 timestamp_anomaly: a when list
\* and a conditions list
DocBothLists ==
    Yaml(Obj([name |-> Str("timestamp_anomaly"),
              when |-> Arr(<<Cond("evidence.type", "exists", Bool(TRUE))>>),
              conditions |-> Arr(<<Cond("evidence.timestamp", "greater_than",
                                        Str("{{now}}"))>>),
              actions |-> Arr(<<Obj([type |-> Str("create_alert"),
                                     severity |-> Str("medium"),
                                     message |-> <<"template",
                                        <<Text("Evidence timestamp is in the future")>>>>,
                                     evidence_refs |->
                                        Arr(<<Str("{{evidence.id}}")>>)])>>)]))
\* absence tests: a path through a missing segment, and a field that is null
\* when the column is
DocAbsentPath ==
    Yaml(Obj([name |-> Str("no_place_no_time"),
              when |-> Arr(<<Cond("evidence.location.lat", "!exists", Undef),
                             Cond("evidence.timestamp", "!exists", Undef)>>),
              actions |-> Arr(<<Action("low", <<Text("Undated")>>)>>)]))
\* a condition that fails followed by an entry with neither field nor path
DocNoField ==
    Yaml(Obj([name |-> Str("video_check"),
              when |-> Arr(<<Cond("evidence.type", "==", Str("video")),
                             Obj([operator |-> Str("exists")])>>),
              actions |-> Arr(<<Action("low", <<Text("Video")>>)>>)]))

YamlInputs ==
    {DocValid, DocUnknownOperator, DocNoActions, DocNoConditions,
     DocTwoConditions, DocBothLists, DocAbsentPath, DocNoField, YamlError}
RuleIdInputs == {"R-1", "R-2"}

\* INSERT INTO rule_defs (id, name, description, yaml_definition, owner, active)
RuleDefRow(data, t) ==
    [id |-> data.id, name |-> data.name, description |-> data.description,
     yaml_definition |-> data.yaml_definition, owner |-> data.owner,
     active |-> IF data.active = UNDEFINED THEN TRUE ELSE data.active,
     created_at |-> t, updated_at |-> t]

RuleDefInputs ==
    [id : RuleIdInputs, name : {"rule"}, description : {"d"},
     yaml_definition : YamlInputs, owner : {"system"}, active : {UNDEFINED}]

\* RuleDefinitionModel.create; id is the primary key, a second row with the
\* same id is refused by the database
RuleDefinitionModel_create(data) ==
    /\ Len(rule_defs) < MaxRuleDefs
    /\ \A i \in DOMAIN rule_defs : rule_defs[i].id # data.id
    /\ rule_defs' = Append(rule_defs, RuleDefRow(data, now))
    /\ UNCHANGED <<now, caseVars, retired, rules, loadProc, peProc, pendingAlerts, engineCall,
                   rejections,
                   alertVars, auditVars, evidenceVars, routeVars>>

\* The loads in flight, with id no longer among the ids they have known to
\* be inactive since they began (history)
Forget(id) ==
    [l \in DOMAIN loadProc |-> [loadProc[l] EXCEPT !.inactive = @ \ {id}]]

\* A store that reaches into the engine: deactivating drops the compiled rule
RuleDefinitionModel_deactivate_evict(id) ==
    /\ \E i \in DOMAIN rule_defs : rule_defs[i].id = id
    /\ rule_defs' = [i \in DOMAIN rule_defs |->
                       IF rule_defs[i].id = id
                       THEN [rule_defs[i] EXCEPT !.active = FALSE,
                                                 !.updated_at = now]
                       ELSE rule_defs[i]]
    /\ rules' = SelectSeq(rules, LAMBDA rule : rule.id # id)
    /\ UNCHANGED <<now, caseVars, retired, loadProc, peProc,
                   pendingAlerts, engineCall, rejections,
                   alertVars, auditVars, evidenceVars, routeVars>>

\* RuleDefinitionModel.deactivate: UPDATE rule_defs SET active = false,
\* updated_at = NOW() WHERE id = $1; with no such row nothing changes
RuleDefinitionModel_deactivate(id) ==
    /\ \E i \in DOMAIN rule_defs : rule_defs[i].id = id
    /\ rule_defs' = [i \in DOMAIN rule_defs |->
                       IF rule_defs[i].id = id
                       THEN [rule_defs[i] EXCEPT !.active = FALSE,
                                                 !.updated_at = now]
                       ELSE rule_defs[i]]
    /\ UNCHANGED <<now, caseVars, retired, rules, loadProc, peProc,
                   pendingAlerts, engineCall, rejections,
                   alertVars, auditVars, evidenceVars, routeVars>>

\* RuleDefinitionModel.update(id, { active }): UPDATE rule_defs SET
\* active = $2, updated_at = NOW() WHERE id = $1; with no such row the call
\* throws 'Rule definition not found'
RuleDefinitionModel_update(id, active) ==
    /\ \E i \in DOMAIN rule_defs : rule_defs[i].id = id
    /\ rule_defs' = [i \in DOMAIN rule_defs |->
                       IF rule_defs[i].id = id
                       THEN [rule_defs[i] EXCEPT !.active = active,
                                                 !.updated_at = now]
                       ELSE rule_defs[i]]
    /\ retired' = IF active THEN retired \ {id} ELSE retired
    /\ loadProc' = IF active THEN Forget(id) ELSE loadProc
    /\ UNCHANGED <<now, caseVars, rules, peProc,
                   pendingAlerts, engineCall, rejections,
                   alertVars, auditVars, evidenceVars, routeVars>>

\* RuleDefinitionModel.delete: DELETE FROM rule_defs WHERE id = $1
RuleDefinitionModel_delete(id) ==
    /\ \E i \in DOMAIN rule_defs : rule_defs[i].id = id
    /\ rule_defs' = SelectSeq(rule_defs, LAMBDA row : row.id # id)
    /\ retired' = retired \ {id}
    /\ loadProc' = Forget(id)
    /\ UNCHANGED <<now, caseVars, rules, peProc,
                   pendingAlerts, engineCall, rejections,
                   alertVars, auditVars, evidenceVars, routeVars>>

\* SELECT * FROM rule_defs WHERE active = true ORDER BY created_at DESC:
\* every order the database may return the active rows in
findAllActive(defs) ==
    LET S == {i \in DOMAIN defs : defs[i].active} IN
    {[k \in DOMAIN q |-> defs[q[k]]] :
        q \in {q \in [1..Cardinality(S) -> S] :
                 /\ \A i, j \in DOMAIN q : i # j => q[i] # q[j]
                 /\ \A i \in DOMAIN q : i < Len(q) =>
                       defs[q[i]].created_at >= defs[q[i + 1]].created_at}}

\* validateYamlDefinition: valid when the text parses and has a name, when
\* conditions and actions (no caller in the repository)
validateYamlDefinition(text) ==
    /\ text # YamlError
    /\ ~IsNullish(text[2])
    /\ Truthy(Prop(text[2], "name"))
    /\ Truthy(Prop(text[2], "when"))
    /\ Truthy(Prop(text[2], "actions"))

----------------------------------------------------------------------------
(* Compilation of rule definitions (services/rulesEngine.ts)               *)

\* The keys of operatorMap
KnownOperators == {"==", "!=", "contains", ">", "<", "exists", "!exists"}

\* operatorMap[operator] || 'equals'
mapOperator(operator) ==
    IF TypeOf(operator) = "string" /\ operator[2] \in KnownOperators
    THEN CASE operator[2] = "==" -> "equals"
           [] operator[2] = "!=" -> "not_equals"
           [] operator[2] = "contains" -> "contains"
           [] operator[2] = ">" -> "greater_than"
           [] operator[2] = "<" -> "less_than"
           [] operator[2] = "exists" -> "exists"
           [] operator[2] = "!exists" -> "not_exists"
    ELSE "equals"

\* Reading a property of null or undefined throws a TypeError
EntriesThrow(list) ==
    TypeOf(list) = "array" /\ \E i \in DOMAIN list[2] : IsNullish(list[2][i])

\* parseConditions: one condition per entry of an array, none otherwise
parseConditions(yamlConditions) ==
    IF TypeOf(yamlConditions) = "array"
    THEN [i \in DOMAIN yamlConditions[2] |->
            LET cond == yamlConditions[2][i] IN
            [field |-> JsOr(Prop(cond, "field"), Prop(cond, "path")),
             operator |-> mapOperator(JsOr(Prop(cond, "operator"),
                                           Prop(cond, "op"))),
             value |-> Prop(cond, "value")]]
    ELSE <<>>

\* parseActions: one action per entry of an array, none otherwise
parseActions(yamlActions) ==
    IF TypeOf(yamlActions) = "array"
    THEN [i \in DOMAIN yamlActions[2] |->
            LET action == yamlActions[2][i] IN
            [type |-> JsOr(Prop(action, "type"), Str("create_alert")),
             severity |-> JsOr(Prop(action, "severity"), Str("medium")),
             message |-> Prop(action, "message"),
             evidence_refs |-> Prop(action, "evidence_refs")]]
    ELSE <<>>

\* The sections of a parsed document that loadRules reads
WhenSection(doc) == JsOr(Prop(doc, "when"), Prop(doc, "conditions"))
ActionSection(doc) == JsOr(Prop(doc, "actions"), Prop(doc, "on_failure"))

\* The body of the map callback throws: js-yaml rejects the text, the
\* document is null or undefined, or an entry of a section is
CompileThrows(def) ==
    \/ def.yaml_definition = YamlError
    \/ IsNullish(def.yaml_definition[2])
    \/ EntriesThrow(WhenSection(def.yaml_definition[2]))
    \/ EntriesThrow(ActionSection(def.yaml_definition[2]))

\* The rule the map callback returns for a definition that does not throw;
\* yaml keeps the document the rule was compiled from
CompileRule(def) ==
    LET yamlContent == def.yaml_definition[2] IN
    [id |-> def.id, name |-> def.name, description |-> def.description,
     conditions |-> parseConditions(WhenSection(yamlContent)),
     actions |-> parseActions(ActionSection(yamlContent)),
     enabled |-> def.active,
     yaml |-> yamlContent]

\* A loader that gives up the whole set at the first definition that throws
CompileAll_abort(ruleDefs) ==
    IF \E i \in DOMAIN ruleDefs : CompileThrows(ruleDefs[i]) THEN <<>>
    ELSE [i \in DOMAIN ruleDefs |-> CompileRule(ruleDefs[i])]

\* ruleDefs.map(...).filter(Boolean)
RECURSIVE CompileAll(_)
CompileAll(ruleDefs) ==
    IF ruleDefs = <<>> THEN <<>>
    ELSE IF CompileThrows(Head(ruleDefs)) THEN CompileAll(Tail(ruleDefs))
    ELSE <<CompileRule(Head(ruleDefs))>> \o CompileAll(Tail(ruleDefs))

\* The ids of the rules of a rule array, in its order
RuleIds(arr) == [i \in DOMAIN arr |-> arr[i].id]

Loaders == {"l1", "l2"}
\* inactive is history: the ids whose definitions have been inactive since
\* before the call began
IdleLoad == [pc |-> "idle", rows |-> <<>>, inactive |-> {}]

\* The ids of the stored definitions that are not active
InactiveIds == {rule_defs[i].id : i \in {j \in DOMAIN rule_defs : ~rule_defs[j].active}}

\* loadRules is called: the query of findAllActive is sent
loadRules_call(l) ==
    /\ loadProc[l].pc = "idle"
    /\ loadProc' = [loadProc EXCEPT ![l] = [pc |-> "query", rows |-> <<>>,
                                            inactive |-> InactiveIds]]
    /\ UNCHANGED <<now, caseVars, retired, rule_defs, rules, peProc, pendingAlerts, engineCall,
                   rejections,
                   alertVars, auditVars, evidenceVars, routeVars>>

\* the database answers the query with the active rows as they are now
loadRules_query(l) ==
    /\ loadProc[l].pc = "query"
    /\ \E rows \in findAllActive(rule_defs) :
          loadProc' = [loadProc EXCEPT ![l] = [@ EXCEPT !.pc = "assign",
                                                         !.rows = rows]]
    /\ UNCHANGED <<now, caseVars, retired, rule_defs, rules, peProc, pendingAlerts, engineCall,
                   rejections,
                   alertVars, auditVars, evidenceVars, routeVars>>

\* the call resumes: the rows are compiled and this.rules is replaced
loadRules_assign(l) ==
    /\ loadProc[l].pc = "assign"
    /\ rules' = CompileAll(loadProc[l].rows)
    /\ loadProc' = [loadProc EXCEPT ![l] = IdleLoad]
    /\ peProc' = IF peProc.pc = "await"
                 THEN [peProc EXCEPT !.seen = @ \cup {RuleIds(rules')}]
                 ELSE peProc
    /\ retired' = retired \cup loadProc[l].inactive
    /\ UNCHANGED <<now, caseVars, rule_defs, pendingAlerts, engineCall,
                   rejections,
                   alertVars, auditVars, evidenceVars, routeVars>>

----------------------------------------------------------------------------
(* Evaluation of evidence against the rules (services/rulesEngine.ts)      *)

\* A JSONB column: NULL, or the value the driver hands over already parsed
NoJson == <<>>
Jsonb(v) == <<v>>

\* The evidence_items rows at the start and the cases table.  e3 has no case,
\* e4 is a physical item with a chain of custody (timestamps in hours).
\* The timestamp column is NULL or a time in milliseconds; that of e1 is
\* not later than any reading of the clock.  created_at is the time of the
\* INSERT (DEFAULT NOW()): the items were inserted in the order e1 .. e6.
\* Case c2 holds an undated photo and a dated one inserted after it.
EvidenceIdInputs == {"e1", "e2", "e3", "e4", "e9"}
EvidenceItems ==
    [e1 |-> [id |-> "e1", case_id |-> "c1", type |-> "photo",
             timestamp |-> At(0), created_at |-> 0,
             owner_source |-> "police", location |-> NoJson,
             chain_of_custody_json |-> NoJson],
     e2 |-> [id |-> "e2", case_id |-> "c1", type |-> "witness_statement",
             timestamp |-> NoTime, created_at |-> 1,
             owner_source |-> "counsel", location |-> NoJson,
             chain_of_custody_json |-> NoJson],
     e3 |-> [id |-> "e3", case_id |-> NULL, type |-> "photo",
             timestamp |-> NoTime, created_at |-> 2,
             owner_source |-> "police", location |-> NoJson,
             chain_of_custody_json |-> NoJson],
     e4 |-> [id |-> "e4", case_id |-> "c1", type |-> "physical_item",
             timestamp |-> NoTime, created_at |-> 3,
             owner_source |-> "police", location |-> NoJson,
             chain_of_custody_json |->
                Jsonb(<<[timestamp |-> 0], [timestamp |-> 30]>>)],
     e5 |-> [id |-> "e5", case_id |-> "c2", type |-> "photo",
             timestamp |-> NoTime, created_at |-> 4,
             owner_source |-> "police", location |-> NoJson,
             chain_of_custody_json |-> NoJson],
     e6 |-> [id |-> "e6", case_id |-> "c2", type |-> "photo",
             timestamp |-> At(0), created_at |-> 5,
             owner_source |-> "police", location |-> NoJson,
             chain_of_custody_json |-> NoJson]]
Cases ==
    [c1 |-> [id |-> "c1", case_number |-> "CN-1", status |-> "active",
             created_at |-> 0],
     c2 |-> [id |-> "c2", case_number |-> "CN-2", status |-> "active",
             created_at |-> 0]]

\* mapRowToEvidence hands the location and chain_of_custody_json of the row
\* to JSON.parse when they are not null; the driver has parsed these JSONB
\* columns already, and JSON.parse of the object or array (of its string
\* form "[object Object]") throws a SyntaxError
mapRowToEvidenceThrows(row) ==
    row.location # NoJson \/ row.chain_of_custody_json # NoJson

\* mapRowToEvidence of a row it does not throw on: both columns undefined
mapRowToEvidence(row) == row

\* flattenEvidence; a NULL timestamp is null, the location of a row that
\* mapRowToEvidence does not throw on is undefined
flattenEvidence(evidence) ==
    Obj([id |-> Str(evidence.id), type |-> Str(evidence.type),
         timestamp |-> IF evidence.timestamp = NoTime THEN Null
                       ELSE DateV(evidence.timestamp[1]),
         location |-> Undef,
         owner_source |-> Str(evidence.owner_source),
         chain_of_custody_length |->
            Num(IF evidence.chain_of_custody_json = NoJson THEN 0
                ELSE Len(evidence.chain_of_custody_json[1]))])

\* flattenCase
flattenCase(caseData) ==
    Obj([id |-> Str(caseData.id), case_number |-> Str(caseData.case_number),
         status |-> Str(caseData.status),
         created_at |-> DateV(caseData.created_at)])

\* const context = { evidence, case, now: new Date() }
Context(evidence, caseData, t) ==
    Obj([evidence |-> flattenEvidence(evidence),
         case |-> flattenCase(caseData),
         now |-> DateV(JsDate(t))])

\* fieldPath.split('.') for the paths that occur in the rule documents
Split(fieldPath) ==
    CASE fieldPath = "evidence.type" -> <<"evidence", "type">>
      [] fieldPath = "evidence.id" -> <<"evidence", "id">>
      [] fieldPath = "evidence.owner_source" -> <<"evidence", "owner_source">>
      [] fieldPath = "evidence.location" -> <<"evidence", "location">>
      [] fieldPath = "evidence.location.lat" -> <<"evidence", "location", "lat">>
      [] fieldPath = "evidence.timestamp" -> <<"evidence", "timestamp">>
      [] fieldPath = "case.warrant.search_start" ->
            <<"case", "warrant", "search_start">>
      [] fieldPath = "subject.name" -> <<"subject", "name">>
      [] fieldPath = "evidence.chain_of_custody_length" ->
            <<"evidence", "chain_of_custody_length">>
      [] fieldPath = "case.status" -> <<"case", "status">>
      [] fieldPath = "case.id" -> <<"case", "id">>
      [] OTHER -> <<fieldPath>>

\* The loop of getFieldValue: a step into anything but an object gives
\* undefined
RECURSIVE Walk(_, _)
Walk(value, parts) ==
    IF parts = <<>> THEN value
    ELSE IF Truthy(value) /\ TypeOf(value) \in {"object", "array", "date"}
    THEN Walk(Prop(value, Head(parts)), Tail(parts))
    ELSE Undef

\* A faulty variant: only the first segment of the path is resolved
getFieldValue_root(context, fieldPath) ==
    Prop(context, Split(fieldPath)[1])

\* getFieldValue; a field that is not a string has no split method and the
\* call throws (see ConditionThrows)
getFieldValue(context, fieldPath) == Walk(context, Split(fieldPath))

\* ToNumber for the relational operators: <<>> stands for NaN
ToNumber(v) ==
    CASE TypeOf(v) \in {"number", "date"} -> <<v[2]>>
      [] TypeOf(v) = "null" -> <<0>>
      [] TypeOf(v) = "boolean" -> IF v[2] THEN <<1>> ELSE <<0>>
      [] OTHER -> <<>>

\* a < b for operands that are not both strings
JsLess(a, b) ==
    /\ ToNumber(a) # <<>>
    /\ ToNumber(b) # <<>>
    /\ ToNumber(a)[1] < ToNumber(b)[1]

\* haystack.includes(needle) on strings
StringIncludes(haystack, needle) ==
    \E i \in 1..(Len(haystack) + 1) :
        /\ i + Len(needle) - 1 <= Len(haystack)
        /\ \A k \in 1..Len(needle) : haystack[i + k - 1] = needle[k]

\* evaluateCondition
evaluateCondition(condition, fieldValue) ==
    CASE condition.operator = "equals" ->
            StrictEquals(fieldValue, condition.value)
      [] condition.operator = "not_equals" ->
            ~StrictEquals(fieldValue, condition.value)
      [] condition.operator = "contains" ->
            IF TypeOf(fieldValue) = "array"
            THEN \E i \in DOMAIN fieldValue[2] :
                    StrictEquals(fieldValue[2][i], condition.value)
            ELSE StringIncludes(ToJsString(fieldValue),
                                ToJsString(condition.value))
      [] condition.operator = "greater_than" ->
            JsLess(condition.value, fieldValue)
      [] condition.operator = "less_than" ->
            JsLess(fieldValue, condition.value)
      [] condition.operator = "exists" -> ~IsNullish(fieldValue)
      [] condition.operator = "not_exists" -> IsNullish(fieldValue)
      [] OTHER -> FALSE

\* getFieldValue throws on a condition whose field is not a string
ConditionThrows(condition) == TypeOf(condition.field) # "string"

\* evaluateConditions: the index of the first condition that throws or
\* fails, 0 when every condition passes
RECURSIVE FirstStop(_, _, _)
FirstStop(conditions, context, i) ==
    IF i > Len(conditions) THEN 0
    ELSE IF ConditionThrows(conditions[i]) THEN i
    ELSE IF ~evaluateCondition(conditions[i],
                               getFieldValue(context, conditions[i].field[2]))
    THEN i
    ELSE FirstStop(conditions, context, i + 1)

\* What a call of evaluateConditions gives its caller: the boolean it
\* returns, or the TypeError of the condition it stops at
ConditionsOutcome(conditions, context) ==
    LET i == FirstStop(conditions, context, 1) IN
    IF i = 0 THEN "true"
    ELSE IF ConditionThrows(conditions[i]) THEN "TypeError"
    ELSE "false"

\* A faulty variant: only the first condition decides
evaluateConditions_first(conditions, context) ==
    FirstStop(SubSeq(conditions, 1, 1), context, 1) = 0

evaluateConditions(conditions, context) ==
    FirstStop(conditions, context, 1) = 0

----------------------------------------------------------------------------
(* Actions of triggered rules and processEvidence                          *)

\* The regular expression of interpolateString matches {{key}} only when key
\* is made of word characters: a key with a dot in it is left as it is
IsWord(key) == Split(key) = <<key>>

\* interpolateString on a template
RECURSIVE interpolateString(_, _)
interpolateString(template, context) ==
    IF template = <<>> THEN ""
    ELSE LET part == Head(template)
             match == "{{" \o part[2] \o "}}"
             value == getFieldValue(context, part[2])
             text == IF part[1] = "text" THEN part[2]
                     ELSE IF IsWord(part[2]) /\ value # Undef
                     THEN ToJsString(value)
                     ELSE match
         IN text \o interpolateString(Tail(template), context)

\* action.evidence_refs || [evidence.id]
EvidenceRefs(action, evidence) ==
    IF ~Truthy(action.evidence_refs) THEN <<evidence.id>>
    ELSE IF TypeOf(action.evidence_refs) = "array"
    THEN [i \in DOMAIN action.evidence_refs[2] |->
            ToJsString(action.evidence_refs[2][i])]
    ELSE <<ToJsString(action.evidence_refs)>>

\* context.rule?.id || 'unknown'
ContextRuleId(context) ==
    LET rule == Prop(context, "rule") IN
    ToJsString(JsOr(IF IsNullish(rule) THEN Undef ELSE Prop(rule, "id"),
                    Str("unknown")))

\* The callback of executeActions gets as far as AlertModel.create: the
\* action creates alerts and its message is a string
CreatesAlert(action) ==
    /\ StrictEquals(action.type, Str("create_alert"))
    /\ TypeOf(action.message) = "template"

\* executeActions: the alerts whose creation the callbacks start, in the
\* order of the actions; srcRule is the rule the actions belong to
RECURSIVE executeActions(_, _, _, _)
executeActions(actions, context, evidence, srcRule) ==
    IF actions = <<>> THEN <<>>
    ELSE LET action == Head(actions)
             alertData ==
                [case_id |-> evidence.case_id,
                 rule_id |-> ContextRuleId(context),
                 severity |-> ToJsString(action.severity),
                 explanation |-> interpolateString(action.message[2], context),
                 evidence_refs |-> EvidenceRefs(action, evidence),
                 src_rule |-> srcRule]
         IN (IF CreatesAlert(action) THEN <<alertData>> ELSE <<>>)
            \o executeActions(Tail(actions), context, evidence, srcRule)

\* The rule is enabled and its conditions pass without throwing
Triggers(rule, context) ==
    rule.enabled /\ evaluateConditions(rule.conditions, context)

\* The loop of processEvidence over the rules: the alert creations started
RECURSIVE RunRules(_, _, _)
RunRules(rs, context, evidence) ==
    IF rs = <<>> THEN <<>>
    ELSE (IF Triggers(Head(rs), context)
          THEN executeActions(Head(rs).actions, context, evidence, Head(rs).id)
          ELSE <<>>)
         \o RunRules(Tail(rs), context, evidence)

RECURSIVE TriggeredIds(_, _)
TriggeredIds(rs, context) ==
    IF rs = <<>> THEN <<>>
    ELSE (IF Triggers(Head(rs), context) THEN <<Head(rs).id>> ELSE <<>>)
         \o TriggeredIds(Tail(rs), context)

IdlePe == [pc |-> "idle", evidenceId |-> ""]
NoEngineCall ==
    [evidenceId |-> "", outcome |-> "none", triggered |-> <<>>,
     evaluated |-> <<>>, seen |-> {}, t |-> 0]

\* A processEvidence call that returns, or rejects, before its loop
EarlyReturn(evidenceId, outcome) ==
    [evidenceId |-> evidenceId, outcome |-> outcome, triggered |-> <<>>,
     evaluated |-> <<>>, seen |-> {}, t |-> 0]

\* processEvidence is called: the evidence item is asked for
processEvidence_call(evidenceId) ==
    /\ peProc.pc = "idle"
    /\ Len(alerts) + Len(pendingAlerts) < MaxAlerts
    /\ peProc' = [pc |-> "fetch", evidenceId |-> evidenceId]
    /\ UNCHANGED <<now, caseVars, retired,
                   rule_defs, rules, loadProc, pendingAlerts, engineCall,
                   rejections,
                   alertVars, auditVars, evidenceVars, routeVars>>

\* A faulty variant: each step of the loop reads this.rules anew
Iterable_live(captured, live) == live

\* for (const rule of this.rules): the loop iterates the array this.rules
\* referred to when the loop began, whatever this.rules is assigned later
Iterable(captured, live) == captured

\* The index of the first rule from i on that triggers, 0 when none does
RECURSIVE NextTrigger(_, _, _)
NextTrigger(arr, i, context) ==
    IF i > Len(arr) THEN 0
    ELSE IF Triggers(arr[i], context) THEN i
    ELSE NextTrigger(arr, i + 1, context)

\* The loop of processEvidence from rule p.idx up to its next await (a rule
\* that triggers, whose actions are started) or to its end (the call
\* returns).  evaluated and seen are history: the rules the loop has read,
\* and the rule sets this.rules has held since the loop began.
LoopStep(p) ==
    LET arr == Iterable(p.iterable, rules)
        context == Context(p.evidence, Cases[p.evidence.case_id], p.t)
        j == NextTrigger(arr, p.idx, context)
        evaluated == p.evaluated
                     \o RuleIds(SubSeq(arr, p.idx, IF j = 0 THEN Len(arr) ELSE j))
    IN IF j = 0
       THEN /\ engineCall' = [evidenceId |-> p.evidenceId,
                              outcome |-> "evaluated",
                              triggered |-> p.triggered,
                              evaluated |-> evaluated, seen |-> p.seen,
                              t |-> p.t]
            /\ peProc' = IdlePe
            /\ UNCHANGED pendingAlerts
       ELSE /\ pendingAlerts' = pendingAlerts
                  \o executeActions(arr[j].actions, context, p.evidence, arr[j].id)
            /\ peProc' = [p EXCEPT !.pc = "await", !.idx = j + 1,
                                   !.triggered = @ \o <<arr[j].id>>,
                                   !.evaluated = evaluated]
            /\ UNCHANGED engineCall

\* the item and its case have arrived: the call rejects when the row cannot
\* be mapped, returns when the item or its case is missing, and otherwise
\* builds the context and enters the loop over this.rules
processEvidence_run ==
    /\ peProc.pc = "fetch"
    /\ LET evidenceId == peProc.evidenceId
           found == evidenceId \in DOMAIN evidence_items
           row == evidence_items[evidenceId]
       IN IF ~found
          THEN /\ engineCall' = EarlyReturn(evidenceId, "evidence not found")
               /\ peProc' = IdlePe
               /\ UNCHANGED pendingAlerts
          ELSE IF mapRowToEvidenceThrows(row)
          THEN /\ engineCall' = EarlyReturn(evidenceId, "SyntaxError")
               /\ peProc' = IdlePe
               /\ UNCHANGED pendingAlerts
          ELSE IF row.case_id \notin DOMAIN Cases
          THEN /\ engineCall' = EarlyReturn(evidenceId, "case not found")
               /\ peProc' = IdlePe
               /\ UNCHANGED pendingAlerts
          ELSE LoopStep([pc |-> "loop", evidenceId |-> evidenceId,
                         evidence |-> mapRowToEvidence(row), t |-> now,
                         iterable |-> rules, idx |-> 1,
                         triggered |-> <<>>, evaluated |-> <<>>,
                         seen |-> {RuleIds(rules)}])
    /\ UNCHANGED <<now, caseVars, retired, rule_defs, rules, loadProc, rejections,
                   alertVars, auditVars, evidenceVars, routeVars>>

\* the loop resumes after await this.executeActions(...), which waits for
\* none of the alert creations: the value awaited is an array
processEvidence_resume ==
    /\ peProc.pc = "await"
    /\ LoopStep(peProc)
    /\ UNCHANGED <<now, caseVars, retired, rule_defs, rules, loadProc, rejections,
                   alertVars, auditVars, evidenceVars, routeVars>>

\* An alert creation started by executeActions completes: the INSERT of
\* AlertModel.create
AlertModel_create_complete ==
    \E i \in DOMAIN pendingAlerts :
        /\ alerts' = Append(alerts, AlertRow(pendingAlerts[i]))
        /\ alertCall' = AlertCallOf("create", Len(alerts) + 1, TRUE)
        /\ pendingAlerts' = SubSeq(pendingAlerts, 1, i - 1)
                            \o SubSeq(pendingAlerts, i + 1, Len(pendingAlerts))
        /\ UNCHANGED <<now, caseVars, retired, rule_defs, rules, loadProc, peProc, engineCall,
                       rejections, auditVars, evidenceVars, routeVars>>

\* An alert creation started by executeActions fails: the promise of the
\* callback is rejected, and nothing awaits or catches it
AlertModel_create_fail ==
    \E i \in DOMAIN pendingAlerts :
        /\ Len(rejections) < MaxFailures
        /\ rejections' = Append(rejections, pendingAlerts[i].src_rule)
        /\ pendingAlerts' = SubSeq(pendingAlerts, 1, i - 1)
                            \o SubSeq(pendingAlerts, i + 1, Len(pendingAlerts))
        /\ UNCHANGED <<now, caseVars, retired, rule_defs, rules, loadProc, peProc, engineCall,
                       alertVars, auditVars, evidenceVars, routeVars>>

IdleCase == [pc |-> "idle", caseId |-> "", items |-> <<>>, processed |-> <<>>]
NoCaseCall == [caseId |-> "", outcome |-> "none", processed |-> <<>>]

\* ORDER BY timestamp ASC, created_at ASC: a NULL timestamp sorts last
EvidenceBefore(a, b) ==
    \/ a.timestamp # NoTime /\ b.timestamp = NoTime
    \/ a.timestamp # NoTime /\ b.timestamp # NoTime
          /\ a.timestamp[1] < b.timestamp[1]
    \/ a.timestamp = b.timestamp /\ a.created_at < b.created_at

\* The ids of S, a set of evidence ids, in the order of before, a set of
\* pairs of ids
OrderedIds(S, before) ==
    CHOOSE q \in [1..Cardinality(S) -> S] :
        /\ \A i, j \in DOMAIN q : i # j => q[i] # q[j]
        /\ \A i, j \in DOMAIN q : i < j => <<q[i], q[j]>> \in before

\* The pairs of ids of S that ORDER BY timestamp ASC, created_at ASC puts
\* in this order
QueryOrder(S) ==
    {pair \in S \X S :
        EvidenceBefore(evidence_items[pair[1]], evidence_items[pair[2]])}

\* The evidence ids of a case
ItemsOfCase(caseId) ==
    {id \in DOMAIN evidence_items : evidence_items[id].case_id = caseId}

\* EvidenceModel.findByCase: SELECT * FROM evidence_items WHERE case_id = $1
\* ORDER BY timestamp ASC, created_at ASC (the ids of the rows)
findByCase(caseId) ==
    OrderedIds(ItemsOfCase(caseId), QueryOrder(ItemsOfCase(caseId)))

\* processCase is called: the query of findByCase is sent
processCase_call(caseId) ==
    /\ caseProc.pc = "idle"
    /\ Len(alerts) + Len(pendingAlerts) < MaxAlerts
    /\ caseProc' = [IdleCase EXCEPT !.pc = "query", !.caseId = caseId]
    /\ UNCHANGED <<now, caseCall, retired, alertVars, auditVars, rulesVars,
                   evidenceVars, routeVars>>

\* the rows arrive and are mapped: the call rejects when mapRowToEvidence
\* throws on one of them, and otherwise enters its loop over the items
processCase_query ==
    /\ caseProc.pc = "query"
    /\ IF \E id \in ItemsOfCase(caseProc.caseId) :
             mapRowToEvidenceThrows(evidence_items[id])
       THEN /\ caseCall' = [caseId |-> caseProc.caseId,
                            outcome |-> "SyntaxError", processed |-> <<>>]
            /\ caseProc' = IdleCase
       ELSE /\ caseProc' = [caseProc EXCEPT !.pc = "loop",
                                            !.items = findByCase(caseProc.caseId)]
            /\ UNCHANGED caseCall
    /\ UNCHANGED <<now, retired, alertVars, auditVars, rulesVars,
                   evidenceVars, routeVars>>

\* for (const evidence of evidenceItems) await this.processEvidence(...):
\* once the processEvidence awaited has returned the next one is called, or
\* the call returns; a processEvidence that rejects makes the call reject
processCase_next ==
    /\ caseProc.pc = "loop"
    /\ peProc.pc = "idle"
    /\ IF /\ caseProc.processed # <<>>
          /\ engineCall.evidenceId = caseProc.processed[Len(caseProc.processed)]
          /\ engineCall.outcome = "SyntaxError"
       THEN /\ caseCall' = [caseId |-> caseProc.caseId,
                            outcome |-> "SyntaxError",
                            processed |-> caseProc.processed]
            /\ caseProc' = IdleCase
            /\ UNCHANGED peProc
       ELSE IF caseProc.items = <<>>
       THEN /\ caseCall' = [caseId |-> caseProc.caseId, outcome |-> "returned",
                            processed |-> caseProc.processed]
            /\ caseProc' = IdleCase
            /\ UNCHANGED peProc
       ELSE /\ peProc' = [pc |-> "fetch", evidenceId |-> Head(caseProc.items)]
            /\ caseProc' = [caseProc EXCEPT
                               !.items = Tail(@),
                               !.processed = Append(@, Head(caseProc.items))]
            /\ UNCHANGED caseCall
    /\ UNCHANGED <<now, retired, rule_defs, rules, loadProc, pendingAlerts,
                   engineCall, rejections,
                   alertVars, auditVars, evidenceVars, routeVars>>

----------------------------------------------------------------------------
(* Chain of custody (models/evidence.ts)                                   *)

\* Timestamps of custody entries, in hours from a start T0, and the chains
\* a caller may store
ChainHours == {0, 10, 24, 30}
ChainInputs ==
    UNION {[1..n -> [timestamp : ChainHours]] : n \in 0..MaxChain}
CustodyIdInputs == {"e1", "e4", "e9"}

NoCustodyCall == [op |-> "none", arg |-> "", outcome |-> "none", result |-> {}]

\* EvidenceModel.updateChainOfCustody: the UPDATE stores the chain; the call
\* then throws when no row has the id, and also while mapping the row it
\* has just written
EvidenceModel_updateChainOfCustody(evidenceId, chainOfCustody) ==
    LET found == evidenceId \in DOMAIN evidence_items IN
    /\ evidence_items' =
          IF found
          THEN [evidence_items EXCEPT
                   ![evidenceId].chain_of_custody_json = Jsonb(chainOfCustody)]
          ELSE evidence_items
    /\ custodyCall' = [op |-> "updateChainOfCustody", arg |-> evidenceId,
                       outcome |-> IF ~found THEN "Evidence item not found"
                                   ELSE IF mapRowToEvidenceThrows(
                                              evidence_items'[evidenceId])
                                   THEN "SyntaxError" ELSE "ok",
                       result |-> {}]
    /\ UNCHANGED <<now, caseVars, retired, alertVars, auditVars, rulesVars, routeVars>>

\* 1000 * 60 * 60 and the threshold of the comparison gapHours > 24
MsPerHour == 3600000
GapThresholdHours == 24

\* new Date(entry.timestamp).getTime()
GetTime(entry) == entry.timestamp * MsPerHour

\* A faulty variant: the entries are taken in the order they are stored
SortByTimestamp_stored(entries) == entries

\* entries.sort((a, b) => time(a) - time(b)): ascending, and stable
RECURSIVE SortByTimestamp(_)
SortByTimestamp(entries) ==
    IF entries = <<>> THEN <<>>
    ELSE LET front == SortByTimestamp(SubSeq(entries, 1, Len(entries) - 1))
             e == entries[Len(entries)]
             k == Cardinality({i \in DOMAIN front : GetTime(front[i]) <= GetTime(e)})
         IN SubSeq(front, 1, k) \o <<e>> \o SubSeq(front, k + 1, Len(front))

\* gapMs / (1000 * 60 * 60) > 24
GapExceeds(gapMs) == gapMs > GapThresholdHours * MsPerHour

\* The loop over the sorted entries: some adjacent pair is too far apart
HasGap(entries) ==
    \E i \in 2..Len(entries) :
        GapExceeds(GetTime(entries[i]) - GetTime(entries[i - 1]))

\* A faulty variant: an item with fewer than two entries counts as a gap
CustodyGapFilter_short(item) ==
    \/ item.chain_of_custody_json = NoJson
    \/ Len(item.chain_of_custody_json[1]) < 2
    \/ HasGap(SortByTimestamp(item.chain_of_custody_json[1]))

\* The callback of the filter, on an item whose chain_of_custody_json is
\* undefined (NoJson) or an array
CustodyGapFilter(item) ==
    IF item.chain_of_custody_json = NoJson
       \/ Len(item.chain_of_custody_json[1]) < 2
    THEN FALSE
    ELSE HasGap(SortByTimestamp(item.chain_of_custody_json[1]))

\* SELECT * FROM evidence_items WHERE case_id = $1 AND type = 'physical_item'
\*   AND chain_of_custody_json IS NOT NULL
\*   AND jsonb_array_length(chain_of_custody_json) > 1
CustodyQuery(items, caseId) ==
    {id \in DOMAIN items :
        /\ items[id].case_id = caseId
        /\ items[id].type = "physical_item"
        /\ items[id].chain_of_custody_json # NoJson
        /\ Len(items[id].chain_of_custody_json[1]) > 1}

\* What findEvidenceWithCustodyGaps gives its caller: the ids of the items
\* it returns, or the error it throws while mapping the rows
CustodyGaps(items, caseId) ==
    LET rows == CustodyQuery(items, caseId) IN
    IF \E id \in rows : mapRowToEvidenceThrows(items[id])
    THEN [outcome |-> "SyntaxError", result |-> {}]
    ELSE [outcome |-> "ok",
          result |-> {id \in rows : CustodyGapFilter(mapRowToEvidence(items[id]))}]

EvidenceModel_findEvidenceWithCustodyGaps(caseId) ==
    /\ custodyCall' = [op |-> "findEvidenceWithCustodyGaps", arg |-> caseId,
                       outcome |-> CustodyGaps(evidence_items, caseId).outcome,
                       result |-> CustodyGaps(evidence_items, caseId).result]
    /\ UNCHANGED <<now, caseVars, retired,
                   evidence_items, alertVars, auditVars, rulesVars, routeVars>>

----------------------------------------------------------------------------
(* The alert routes: PUT /:alertId/acknowledge, /resolve, /dismiss         *)

IdleRoute == [pc |-> "idle", entry |-> <<>>]

\* The entry the route hands to AuditModel.create after its model call; of
\* its details, the fields taken from the alert as it was found
RouteAuditEntry(userId, action, alertId, alert) ==
    [user_id |-> userId, action |-> action, target_type |-> "alert",
     target_id |-> ToString(alertId),
     details |-> "{case_id:" \o alert.case_id \o ",severity:" \o alert.severity
                 \o ",rule_id:" \o alert.rule_id \o "}",
     ip_address |-> UNDEFINED, user_agent |-> UNDEFINED]

\* A route up to its await AuditModel.create: findById has found the alert
\* (the route answers NotFound and changes nothing otherwise) and the model
\* call has updated it
RouteUpdate(op, action, alertId, userId, updated) ==
    /\ routeProc.pc = "idle"
    /\ alertId \in DOMAIN alerts
    /\ Len(audit_log) < MaxAuditRows
    /\ alerts' = [alerts EXCEPT ![alertId] = updated]
    /\ alertCall' = AlertCallOf(op, alertId, TRUE)
    /\ routeProc' = [pc |-> "audit",
                     entry |-> RouteAuditEntry(userId, action, alertId,
                                               alerts[alertId])]
    /\ UNCHANGED <<now, caseVars, retired, auditVars, rulesVars, evidenceVars>>

Route_acknowledge(alertId, userId, resolutionNotes) ==
    /\ alertId \in DOMAIN alerts
    /\ RouteUpdate("acknowledge", "alert_acknowledged", alertId, userId,
                   AcknowledgeUpdate(alerts[alertId], userId, resolutionNotes, now))

Route_resolve(alertId, userId, resolutionNotes) ==
    /\ alertId \in DOMAIN alerts
    /\ RouteUpdate("resolve", "alert_resolved", alertId, userId,
                   ResolveUpdate(alerts[alertId], resolutionNotes))

Route_dismiss(alertId, userId, reason) ==
    /\ alertId \in DOMAIN alerts
    /\ RouteUpdate("dismiss", "alert_dismissed", alertId, userId,
                   DismissUpdate(alerts[alertId], reason))

\* The route's AuditModel.create: the entry is signed and inserted
Route_audit ==
    /\ routeProc.pc = "audit"
    /\ LET id == NextVal(audit_seq)
           entry == routeProc.entry
       IN /\ audit_seq' = id
          /\ audit_log' = InsertAuditRow(audit_log,
                AuditRow(id, entry, sha256(CreateSignatureData(entry, now)), now))
    /\ routeProc' = IdleRoute
    /\ UNCHANGED <<now, caseVars, retired, auditProc, auditCall, tamperCount, verifiedOk,
                   maxReturnedId, alertVars, rulesVars, evidenceVars>>

----------------------------------------------------------------------------
(* Specifications *)

Init ==
    /\ now = 0
    /\ alerts = <<>>
    /\ alertCall = NoAlertCall
    /\ audit_log = <<>>
    /\ audit_seq = 0
    /\ auditProc = [p \in AuditCallers |-> IdleProc]
    /\ auditCall = NoAuditCall
    /\ tamperCount = 0
    /\ verifiedOk = {}
    /\ maxReturnedId = 0
    /\ rule_defs = <<>>
    /\ rules = <<>>
    /\ loadProc = [l \in Loaders |->
                      IF l = "l1" THEN [IdleLoad EXCEPT !.pc = "query"]
                      ELSE IdleLoad]     \* the constructor's loadRules
    /\ peProc = IdlePe
    /\ pendingAlerts = <<>>
    /\ engineCall = NoEngineCall
    /\ rejections = <<>>
    /\ evidence_items = EvidenceItems
    /\ custodyCall = NoCustodyCall
    /\ routeProc = IdleRoute
    /\ caseProc = IdleCase
    /\ caseCall = NoCaseCall
    /\ retired = {}

NextAlert ==
    \/ Tick
    \/ \E data \in AlertCreateInputs : AlertModel_create(data)
    \/ \E a \in AlertIdInputs, u \in UserIds, n \in NoteInputs : acknowledge(a, u, n)
    \/ \E a \in AlertIdInputs, n \in ResolveNoteInputs : resolve(a, n)
    \/ \E a \in AlertIdInputs, r \in ReasonInputs : dismiss(a, r)

SpecAlert == Init /\ [][NextAlert]_vars

AuditIdInputs == 1..(MaxAuditRows + 1)
LimitInputs == {1, 50}
DateInputs == 0..JsDate(MaxClock)

\* The operations of AuditModel on p's behalf and on the table
AuditOps(callers) ==
    \/ \E p \in callers, e \in AuditEntryInputs : AuditModel_create_call(p, e)
    \/ \E p \in callers : AuditModel_create_insert(p)
    \/ \E p \in callers : AuditModel_create_return(p)
    \/ \E id \in AuditIdInputs : AuditModel_findById(id)
    \/ \E id \in AuditIdInputs : verifyIntegrity(id)
    \/ \E d1 \in DateInputs, d2 \in DateInputs, tt \in TargetTypes \cup {UNDEFINED} :
          getAuditorExport(d1, d2, tt)

NextAudit ==
    \/ Tick
    \/ AuditOps(AuditCallers)
    \/ \E n \in LimitInputs : findByUser("u1", n)
    \/ \E tt \in TargetTypes, n \in LimitInputs : findByTarget(tt, "t1", n)
    \/ \E n \in LimitInputs : findByAction("alert_acknowledged", n)
    \/ \E d1 \in DateInputs, d2 \in DateInputs, n \in LimitInputs : findByDateRange(d1, d2, n)
    \/ \E n \in LimitInputs : getRecentActivity(n)

\* AuditModel.create called concurrently, with every read operation
SpecAudit == Init /\ [][NextAudit]_vars

NextAuditTamper ==
    \/ Tick
    \/ AuditOps({"p1"})
    \/ \E i \in 1..MaxAuditRows, f \in PersistedFields :
          \E v \in ColumnValues(f) : ModifyStoredRow(i, f, v)

\* One caller, and stored rows modified behind AuditModel's back
SpecAuditTamper == Init /\ [][NextAuditTamper]_vars

\* The operations on the rule store and of the engine: rule definitions
\* drawn from defs, loadRules called by the given callers, evidence ids
\* drawn from evidenceIds
EngineOps(loaders, defs, evidenceIds) ==
    \/ \E data \in defs : RuleDefinitionModel_create(data)
    \/ \E l \in loaders : loadRules_call(l)
    \/ \E l \in loaders : loadRules_query(l)
    \/ \E l \in loaders : loadRules_assign(l)
    \/ \E evidenceId \in evidenceIds : processEvidence_call(evidenceId)
    \/ processEvidence_run
    \/ processEvidence_resume
    \/ AlertModel_create_complete
    \/ AlertModel_create_fail

RulesOps(loaders) == EngineOps(loaders, RuleDefInputs, EvidenceIdInputs)

\* Rule definitions whose documents are drawn from docs
RuleDefsOf(docs) ==
    {data \in RuleDefInputs : data.yaml_definition \in docs}

\* Documents that compilation should refuse, and evidence to try them on
CompileDocs == {DocUnknownOperator, DocNoActions, DocNoConditions, YamlError}
CompileEvidence == {"e1", "e2", "e9"}

NextRules ==
    EngineOps({"l1"}, RuleDefsOf(CompileDocs), CompileEvidence)

\* The rule store, the engine's reloads one at a time, and its processing of
\* evidence, for the documents of CompileDocs
SpecRules == Init /\ [][NextRules]_vars

\* Well-formed documents, and every kind of evidence item
EvalDocs == {DocValid, DocTwoConditions}

\* Documents whose condition lists test absence, lack a field, or come in
\* two sections
SectionDocs == {DocBothLists, DocAbsentPath, DocNoField}

NextEval == EngineOps({"l1"}, RuleDefsOf(EvalDocs), EvidenceIdInputs)

\* The same operations for the documents of EvalDocs
SpecEval == Init /\ [][NextEval]_vars

\* One rule at a time, on a dated photo and an undated statement
SectionDefs == {data \in RuleDefsOf(SectionDocs) : data.id = "R-1"}

NextSections == EngineOps({"l1"}, SectionDefs, {"e1", "e2"})

\* One rule that flags photos
AuditedDefs == {data \in RuleDefsOf({DocValid}) : data.id = "R-1"}

\* The same operations for the documents of SectionDocs
SpecSections == Init /\ [][NextSections]_vars

NextStore ==
    \/ \E data \in AuditedDefs : RuleDefinitionModel_create(data)
    \/ RuleDefinitionModel_deactivate("R-1")
    \/ \E active \in BOOLEAN : RuleDefinitionModel_update("R-1", active)
    \/ RuleDefinitionModel_delete("R-1")
    \/ \E l \in Loaders : loadRules_call(l)
    \/ \E l \in Loaders : loadRules_query(l)
    \/ \E l \in Loaders : loadRules_assign(l)
    \/ \E caseId \in {"c1", "c2"} : processCase_call(caseId)
    \/ processCase_query
    \/ processCase_next
    \/ processEvidence_run
    \/ processEvidence_resume
    \/ AlertModel_create_complete
    \/ AlertModel_create_fail

\* Changes of one stored definition, reloads by the constructor's call and
\* by a later one, and processCase on a case with a chain of custody in it
\* and on one without
SpecStore == Init /\ [][NextStore]_vars

NextFrame ==
    \/ (now < MaxFrameClock /\ Tick)
    \/ \E data \in AuditedDefs : RuleDefinitionModel_create(data)
    \/ RuleDefinitionModel_deactivate("R-1")
    \/ \E active \in BOOLEAN : RuleDefinitionModel_update("R-1", active)
    \/ RuleDefinitionModel_delete("R-1")
    \/ loadRules_call("l1")
    \/ loadRules_query("l1")
    \/ loadRules_assign("l1")
    \/ processCase_call("c2")
    \/ processCase_query
    \/ processCase_next
    \/ processEvidence_run
    \/ processEvidence_resume
    \/ AlertModel_create_complete
    \/ AlertModel_create_fail

\* Changes of one stored definition at two readings of the clock, the
\* engine's reloads one at a time, and processCase on the two photos of c2
SpecFrame == Init /\ [][NextFrame]_vars

NextReload ==
    EngineOps(Loaders, RuleDefsOf({DocValid}), {"e1"})

\* Reloads by two callers at once while evidence is processed
SpecReload == Init /\ [][NextReload]_vars

NextCustody ==
    \/ \E evidenceId \in CustodyIdInputs, chainOfCustody \in ChainInputs :
          EvidenceModel_updateChainOfCustody(evidenceId, chainOfCustody)
    \/ \E caseId \in {"c1", "c9"} :
          EvidenceModel_findEvidenceWithCustodyGaps(caseId)

\* Chains of custody stored and searched for gaps
SpecCustody == Init /\ [][NextCustody]_vars


NextAudited ==
    \/ EngineOps({"l1"}, AuditedDefs, {"e1"})
    \/ \E a \in AlertIdInputs : Route_acknowledge(a, "u1", "n1")
    \/ \E a \in AlertIdInputs : Route_resolve(a, "u1", "n2")
    \/ \E a \in AlertIdInputs : Route_dismiss(a, "u1", "r1")
    \/ Route_audit

\* What has been started runs on: a query that was sent is answered, the
\* loop of processEvidence goes on after each await, an INSERT of an alert
\* ends one way or the other, and a route that has updated an alert goes on
\* to its AuditModel.create.  Nothing obliges a caller to start anything.
FairAudited ==
    /\ WF_vars(loadRules_query("l1"))
    /\ WF_vars(loadRules_assign("l1"))
    /\ WF_vars(processEvidence_run)
    /\ WF_vars(processEvidence_resume)
    /\ WF_vars(AlertModel_create_complete \/ AlertModel_create_fail)
    /\ WF_vars(Route_audit)

\* The engine creating alerts and the routes changing their status, every
\* started operation running to its end
SpecAudited == Init /\ [][NextAudited]_vars /\ FairAudited

----------------------------------------------------------------------------
(* Alert lifecycle: C1, C2, C3 *)

\* The status changes of the documented lifecycle
LifecycleTransitions ==
    {<<"pending", "acknowledged">>, <<"acknowledged", "resolved">>,
     <<"pending", "dismissed">>}
TerminalStatuses == {"resolved", "dismissed"}

\* The step is the call `op` on the stored alert a
IsAlertCall(op, a) ==
    /\ alertCall' # alertCall
    /\ alertCall'.op = op
    /\ alertCall'.alertId = a

\* C1: every change of an alert's status is pending->acknowledged,
\* acknowledged->resolved or pending->dismissed, so a resolved or dismissed
\* alert never changes status again.
C1_StatusFollowsLifecycle ==
    [][\A a \in DOMAIN alerts :
          alerts'[a].status # alerts[a].status =>
              <<alerts[a].status, alerts'[a].status>> \in LifecycleTransitions]_vars

\* C2: acknowledging a resolved or dismissed alert is rejected with an error
\* and leaves status, acknowledged_by, acknowledged_at and resolution_notes
\* as they were.
C2_AcknowledgeTerminalRejected ==
    [][\A a \in DOMAIN alerts :
          (IsAlertCall("acknowledge", a) /\ alerts[a].status \in TerminalStatuses) =>
              /\ alertCall'.outcome # "ok"
              /\ alerts'[a].status = alerts[a].status
              /\ alerts'[a].acknowledged_by = alerts[a].acknowledged_by
              /\ alerts'[a].acknowledged_at = alerts[a].acknowledged_at
              /\ alerts'[a].resolution_notes = alerts[a].resolution_notes]_vars

\* C3: dismissing an acknowledged alert is rejected and the alert stays
\* acknowledged; a dismiss that succeeds was called on a pending alert.
C3_DismissOnlyFromPending ==
    [][\A a \in DOMAIN alerts :
          IsAlertCall("dismiss", a) =>
              /\ alerts[a].status = "acknowledged" =>
                    (alertCall'.outcome # "ok" /\ alerts'[a].status = "acknowledged")
              /\ alertCall'.outcome = "ok" => alerts[a].status = "pending"]_vars

----------------------------------------------------------------------------
(* Audit log: C4 .. C8 *)

VerifiedId == auditCall.args[1]

\* C4: verifyIntegrity of an entry written by AuditModel.create and not
\* modified since returns true.
C4_VerifyAfterCreateIsTrue ==
    (/\ auditCall.op = "verifyIntegrity"
     /\ tamperCount = 0
     /\ RowsWithId(audit_log, VerifiedId) # {}) => auditCall.result = TRUE

Column(row, field) ==
    CASE field = "user_id" -> row.user_id
      [] field = "action" -> row.action
      [] field = "target_type" -> row.target_type
      [] field = "target_id" -> row.target_id
      [] field = "details" -> row.details
      [] field = "timestamp" -> row.timestamp
      [] field = "ip_address" -> row.ip_address
      [] field = "user_agent" -> row.user_agent
      [] field = "signature" -> row.signature

\* The persisted fields in which the stored row differs from an earlier one
ChangedFields(was, row) == {f \in PersistedFields : Column(was, f) # Column(row, f)}

\* The stored rows that once verified true and now differ from that version
\* in exactly one persisted field
OneFieldChanged(id) ==
    {i \in RowsWithId(audit_log, id) :
        \E was \in verifiedOk :
            was.id = id /\ Cardinality(ChangedFields(was, audit_log[i])) = 1}

\* C5: once an entry has verified true, changing any one of its persisted
\* fields (user_id, action, target_type, target_id, details, timestamp,
\* ip_address, user_agent, signature) makes verifyIntegrity return false.
C5_OneFieldChangeDetected ==
    (auditCall.op = "verifyIntegrity" /\ OneFieldChanged(VerifiedId) # {})
        => auditCall.result = FALSE

C5_Witness ==
    /\ auditCall.op = "verifyIntegrity"
    /\ OneFieldChanged(VerifiedId) # {}
    /\ auditCall.result = FALSE

\* C6: no AuditModel operation removes or changes a stored entry, and the
\* log grows only by the INSERT of a create.
C6_AppendOnly ==
    [][/\ Len(audit_log') >= Len(audit_log)
       /\ \A i \in DOMAIN audit_log : audit_log'[i] = audit_log[i]
       /\ audit_log' # audit_log =>
             /\ Len(audit_log') = Len(audit_log) + 1
             /\ \E p \in AuditCallers :
                   auditProc[p].pc = "query" /\ auditProc'[p].pc = "inserted"]_vars

C6_Witness ==
    /\ Len(audit_log) = MaxAuditRows
    /\ auditCall.op = "getRecentActivity"
    /\ Len(auditCall.result) = MaxAuditRows

\* C7: under any interleaving of creates no two entries share an id, and a
\* create that started after another had returned gets a larger id than the
\* one returned.
C7_UniqueIncreasingIds ==
    /\ \A i, j \in DOMAIN audit_log : i # j => audit_log[i].id # audit_log[j].id
    /\ \A p \in AuditCallers :
          auditProc[p].pc = "inserted" => auditProc[p].id > auditProc[p].startFloor

\* a create that started after another create returned has inserted its
\* row, and the log holds the rows of both
C7_Witness ==
    /\ Len(audit_log) >= 2
    /\ \E p \in AuditCallers :
          auditProc[p].pc = "inserted" /\ auditProc[p].startFloor >= 1

\* The log with every field the export must not depend on blanked
Redacted(log) ==
    [i \in DOMAIN log |->
        [log[i] EXCEPT !.user_id = NULL, !.target_id = NULL, !.details = NULL,
                       !.ip_address = NULL, !.user_agent = NULL, !.signature = ""]]

\* C8: the export is determined by the id, action, target_type and timestamp
\* of the stored entries (the log with all other fields blanked yields the
\* same exports), and an exported record has no other field, whatever the
\* date range and target type asked for.
C8_ExportMinimised ==
    auditCall.op = "getAuditorExport" =>
        /\ auditCall.result \in
              AuditorExports(Redacted(audit_log),
                             auditCall.args[1], auditCall.args[2], auditCall.args[3])
        /\ \A k \in DOMAIN auditCall.result :
              DOMAIN auditCall.result[k] = {"id", "action", "target_type", "timestamp"}

C8_Witness ==
    /\ auditCall.op = "getAuditorExport"
    /\ Len(auditCall.result) = 2
    /\ tamperCount = 1
    /\ \E i \in DOMAIN audit_log : audit_log[i].details # NULL /\ audit_log[i].user_id # NULL

----------------------------------------------------------------------------
(* Rule compilation: C9, C10 *)

\* The document has a condition whose operator is not a known one
HasUnknownOperator(doc) ==
    LET section == WhenSection(doc) IN
    /\ TypeOf(section) = "array"
    /\ \E i \in DOMAIN section[2] :
          LET operator == JsOr(Prop(section[2][i], "operator"),
                               Prop(section[2][i], "op"))
          IN ~(TypeOf(operator) = "string" /\ operator[2] \in KnownOperators)

\* C9: a rule definition with a condition whose operator is not one of the
\* known operators is never in the engine's rule set: no loaded rule was
\* compiled from a document with such a condition (so none carries it as an
\* 'equals' condition).
C9_UnknownOperatorExcluded ==
    \A i \in DOMAIN rules : ~HasUnknownOperator(rules[i].yaml)

\* The document has no action section: neither actions nor on_failure
HasNoActionSection(doc) == IsNullish(ActionSection(doc))

\* C10: a rule definition whose YAML has no action section is not in the
\* engine's rule set after loadRules, and no alert, created or being
\* created, comes from such a rule.
C10_NoActionSectionExcluded ==
    /\ \A i \in DOMAIN rules : ~HasNoActionSection(rules[i].yaml)
    /\ \A i \in DOMAIN rule_defs :
          (rule_defs[i].yaml_definition # YamlError
           /\ HasNoActionSection(rule_defs[i].yaml_definition[2]))
          => /\ \A k \in DOMAIN alerts : alerts[k].src_rule # rule_defs[i].id
             /\ \A k \in DOMAIN pendingAlerts :
                   pendingAlerts[k].src_rule # rule_defs[i].id

----------------------------------------------------------------------------
(* Evaluation of rules: C11 - C16 *)

\* The alert creations the engine has started: done, in flight or failed
EngineAlerts ==
    {alerts[k] : k \in {k \in DOMAIN alerts : alerts[k].src_rule # "none"}}
    \cup {pendingAlerts[k] : k \in DOMAIN pendingAlerts}

\* The rule of the stored definition with the given id, as loadRules
\* compiles it
RuleOfId(id) ==
    CompileRule(rule_defs[CHOOSE i \in DOMAIN rule_defs : rule_defs[i].id = id])

\* The context a returned call evaluated its rules in
CallContext(call) ==
    LET evidence == evidence_items[call.evidenceId] IN
    Context(evidence, Cases[evidence.case_id], call.t)

\* The document has no condition list: neither when nor conditions is an
\* array
HasNoConditionList(doc) == TypeOf(WhenSection(doc)) # "array"

\* The ids of the stored definitions without a condition list
NoConditionListIds ==
    {rule_defs[i].id : i \in
        {i \in DOMAIN rule_defs :
            /\ rule_defs[i].yaml_definition # YamlError
            /\ ~IsNullish(rule_defs[i].yaml_definition[2])
            /\ HasNoConditionList(rule_defs[i].yaml_definition[2])}}

\* C11: a rule definition whose YAML has no condition list never matches an
\* evidence item and its actions are never executed: no processEvidence
\* call reports it as triggered and no alert creation comes from it.
C11_NoConditionListNeverMatches ==
    \A id \in NoConditionListIds :
        /\ \A k \in DOMAIN engineCall.triggered : engineCall.triggered[k] # id
        /\ \A a \in EngineAlerts : a.src_rule # id
        /\ \A k \in DOMAIN rejections : rejections[k] # id

\* Every condition of the rule evaluates true against the context
AllConditionsTrue(rule, context) ==
    \A i \in DOMAIN rule.conditions :
        /\ ~ConditionThrows(rule.conditions[i])
        /\ evaluateCondition(rule.conditions[i],
                             getFieldValue(context, rule.conditions[i].field[2]))

\* C12: for every rule a processEvidence call has evaluated, the call
\* executed the rule's actions if and only if every condition of the rule's
\* condition list evaluates true against the call's fact context.
C12_ActionsIffAllConditions ==
    engineCall.outcome = "evaluated" =>
        engineCall.triggered =
            SelectSeq(engineCall.evaluated,
                      LAMBDA id : AllConditionsTrue(RuleOfId(id),
                                                    CallContext(engineCall)))

\* a returned call has evaluated a rule of two conditions whose first
\* condition is true and whose second is not, and has not triggered it
C12_Witness ==
    /\ engineCall.outcome = "evaluated"
    /\ \E k \in DOMAIN engineCall.evaluated :
          LET rule == RuleOfId(engineCall.evaluated[k])
              context == CallContext(engineCall)
          IN /\ Len(rule.conditions) >= 2
             /\ evaluateCondition(rule.conditions[1],
                   getFieldValue(context, rule.conditions[1].field[2]))
             /\ ~AllConditionsTrue(rule, context)
             /\ \A j \in DOMAIN engineCall.triggered :
                   engineCall.triggered[j] # rule.id

\* The message with every placeholder whose dot-separated path resolves in
\* the context replaced by the value, the others left as they are
RECURSIVE ResolvedMessage(_, _)
ResolvedMessage(template, context) ==
    IF template = <<>> THEN ""
    ELSE LET part == Head(template)
             value == getFieldValue(context, part[2])
             text == IF part[1] = "text" THEN part[2]
                     ELSE IF value # Undef THEN ToJsString(value)
                     ELSE "{{" \o part[2] \o "}}"
         IN text \o ResolvedMessage(Tail(template), context)

\* The context of the evidence item an alert creation refers to
AlertContext(a) ==
    LET evidence == evidence_items[a.evidence_refs[1]] IN
    Context(evidence, Cases[evidence.case_id], now)

\* C13: the explanation of every alert the engine creates is the message
\* template of an action of its rule with every {{path}} placeholder whose
\* dot-separated path resolves in the fact context (such as
\* {{evidence.id}}) replaced by the value, and the placeholders that do not
\* resolve left verbatim.
C13_PlaceholdersResolved ==
    \A a \in EngineAlerts :
        \E k \in DOMAIN RuleOfId(a.src_rule).actions :
            a.explanation =
                ResolvedMessage(RuleOfId(a.src_rule).actions[k].message[2],
                                AlertContext(a))

\* C14: every alert the engine creates carries as rule_id the id of the rule
\* whose action created it, the severity of that action and the case_id of
\* the evaluated evidence item.
C14_AlertCarriesRuleId ==
    \A a \in EngineAlerts :
        /\ a.rule_id = a.src_rule
        /\ \E k \in DOMAIN RuleOfId(a.src_rule).actions :
              a.severity = ToJsString(RuleOfId(a.src_rule).actions[k].severity)
        /\ a.case_id = evidence_items[a.evidence_refs[1]].case_id

\* C15: when the creation of an alert fails during processEvidence, the
\* failure is reported to the caller of processEvidence: no alert creation
\* has failed with nothing awaiting or catching the failure.  (The other
\* actions and rules are started all the same.)
C15_FailureReported == rejections = <<>>

\* C16: every processEvidence call evaluates exactly the rules of one
\* complete rule set that this.rules held during the call, in its order:
\* never a mixture of two sets and never a part of one.  While the call is
\* in its loop, what it has evaluated is the beginning of such a set.
C16_OneCompleteRuleSet ==
    /\ engineCall.outcome = "evaluated" =>
          engineCall.evaluated \in engineCall.seen
    /\ peProc.pc = "await" =>
          \E S \in peProc.seen :
              /\ Len(peProc.evaluated) <= Len(S)
              /\ peProc.evaluated = SubSeq(S, 1, Len(peProc.evaluated))

\* a call has returned during which a reload replaced the rule set, the
\* two sets being different and the call having evaluated rules
C16_Witness ==
    /\ engineCall.outcome = "evaluated"
    /\ Cardinality(engineCall.seen) >= 2
    /\ engineCall.evaluated # <<>>

----------------------------------------------------------------------------
(* Chain of custody: C17 - C19 *)

\* The lists with the same entries as seq in every order
Reorderings(seq) ==
    {[i \in DOMAIN seq |-> seq[f[i]]] :
        f \in {g \in [DOMAIN seq -> DOMAIN seq] :
                  \A i, j \in DOMAIN seq : i # j => g[i] # g[j]}}

ItemsWithChain ==
    {id \in DOMAIN evidence_items :
        evidence_items[id].chain_of_custody_json # NoJson}

StoredChain(id) == evidence_items[id].chain_of_custody_json[1]

Reordered(id, chain) ==
    [evidence_items EXCEPT ![id].chain_of_custody_json = Jsonb(chain)]

\* C17: for every stored chain of custody and every permutation of it, the
\* decision of the gap filter on the item is the same, and so is what
\* findEvidenceWithCustodyGaps gives for the item's case.
C17_PermutationInvariant ==
    \A id \in ItemsWithChain :
        \A chain \in Reorderings(StoredChain(id)) :
            /\ CustodyGapFilter(Reordered(id, chain)[id])
                  = CustodyGapFilter(evidence_items[id])
            /\ CustodyGaps(Reordered(id, chain), evidence_items[id].case_id)
                  = CustodyGaps(evidence_items, evidence_items[id].case_id)

\* a physical item is stored with entries out of order that are more than
\* the threshold apart, and its case has been searched for gaps
C17_Witness ==
    /\ custodyCall.op = "findEvidenceWithCustodyGaps"
    /\ custodyCall.arg = "c1"
    /\ evidence_items["e4"].chain_of_custody_json
          = Jsonb(<<[timestamp |-> 30], [timestamp |-> 0]>>)

\* some two entries next to each other in timestamp order are strictly
\* more than 24 hours apart
AdjacentGapOver24h(chain) ==
    \E i, j \in DOMAIN chain :
        /\ chain[j].timestamp - chain[i].timestamp > 24
        /\ ~ \E k \in DOMAIN chain :
                /\ chain[k].timestamp > chain[i].timestamp
                /\ chain[k].timestamp < chain[j].timestamp

\* C18: once findEvidenceWithCustodyGaps has run for a case, a physical
\* item of the case with a chain of custody is reported iff, in timestamp
\* order, some pair of adjacent entries is strictly more than 24 hours
\* apart (T0, T0+30h is reported; T0, T0+10h, T0+30h and T0, T0+24h are
\* not).
C18_GapReportedIffOver24h ==
    custodyCall.op = "findEvidenceWithCustodyGaps" =>
        \A id \in ItemsWithChain :
            (/\ evidence_items[id].case_id = custodyCall.arg
             /\ evidence_items[id].type = "physical_item")
            => (id \in custodyCall.result
                   <=> AdjacentGapOver24h(StoredChain(id)))

\* C19: an item whose chain of custody is absent, empty or has one entry
\* is never reported: the gap filter rejects it, the search does not give
\* it, and the result of a findEvidenceWithCustodyGaps call does not hold
\* it.
C19_ShortChainNeverReported ==
    \A id \in DOMAIN evidence_items :
        (id \notin ItemsWithChain \/ Len(StoredChain(id)) < 2) =>
            /\ ~CustodyGapFilter(mapRowToEvidence(evidence_items[id]))
            /\ id \notin CustodyGaps(evidence_items,
                                     evidence_items[id].case_id).result
            /\ id \notin custodyCall.result

\* the case of a physical item with a chain of one entry has been searched
\* for gaps, and the search returned
C19_Witness ==
    /\ custodyCall.op = "findEvidenceWithCustodyGaps"
    /\ custodyCall.arg = "c1"
    /\ custodyCall.outcome = "ok"
    /\ "e4" \in ItemsWithChain
    /\ Len(StoredChain("e4")) = 1

----------------------------------------------------------------------------
(* Audit of alert changes: C20 *)

StatusChangeActions ==
    {"alert_acknowledged", "alert_resolved", "alert_dismissed"}

\* The audit log holds an entry for the creation of alert k: an entry on
\* the alert that is not the record of a status change
CreationAudited(k) ==
    \E i \in DOMAIN audit_log :
        /\ audit_log[i].target_type = "alert"
        /\ audit_log[i].target_id = ToString(k)
        /\ audit_log[i].action \notin StatusChangeActions

\* The audit log holds an entry of the given action on alert k
ChangeAudited(k, action) ==
    \E i \in DOMAIN audit_log :
        /\ audit_log[i].target_type = "alert"
        /\ audit_log[i].target_id = ToString(k)
        /\ audit_log[i].action = action

\* A route has changed the status of alert k and not yet recorded it
ChangeMade(k, action) ==
    /\ routeProc.pc = "audit"
    /\ routeProc.entry.target_id = ToString(k)
    /\ routeProc.entry.action = action

\* C20: every alert the rules engine has created is eventually followed by
\* an audit entry for its creation, and every acknowledge, resolve or
\* dismiss a route has made is eventually followed by its audit entry.
C20_EveryChangeAudited ==
    \A k \in 1..MaxAlerts :
        /\ (k \in DOMAIN alerts) ~> CreationAudited(k)
        /\ \A action \in StatusChangeActions :
              ChangeMade(k, action) ~> ChangeAudited(k, action)

----------------------------------------------------------------------------
(* Alert fields and their transitions: C25 *)

\* C25: acknowledged_by and acknowledged_at of an alert change only in an
\* acknowledge call and resolution_notes only in a resolve or dismiss call:
\* acknowledge leaves resolution_notes as it was, resolve and dismiss leave
\* acknowledged_by and acknowledged_at as they were.
C25_FieldsSetByOwnTransition ==
    [][\A a \in DOMAIN alerts :
          /\ IsAlertCall("acknowledge", a) =>
                alerts'[a].resolution_notes = alerts[a].resolution_notes
          /\ (IsAlertCall("resolve", a) \/ IsAlertCall("dismiss", a)) =>
                /\ alerts'[a].acknowledged_by = alerts[a].acknowledged_by
                /\ alerts'[a].acknowledged_at = alerts[a].acknowledged_at
          /\ alerts'[a].resolution_notes # alerts[a].resolution_notes =>
                (IsAlertCall("resolve", a) \/ IsAlertCall("dismiss", a))
          /\ (\/ alerts'[a].acknowledged_by # alerts[a].acknowledged_by
              \/ alerts'[a].acknowledged_at # alerts[a].acknowledged_at) =>
                IsAlertCall("acknowledge", a)]_vars

----------------------------------------------------------------------------
(* Completion of alert creations: C28 *)

\* C28: when a processEvidence call has returned, none of the alert
\* creations it asked for is still in flight: with no call running, no
\* creation is pending.
C28_NothingInFlightAfterReturn ==
    (peProc.pc = "idle" /\ engineCall.outcome = "evaluated") =>
        pendingAlerts = <<>>

----------------------------------------------------------------------------
(* Condition lists and field paths: C24, C26, C29 *)

\* The evidence items a context can be built for, and their contexts
ContextIds ==
    {id \in DOMAIN evidence_items : evidence_items[id].case_id \in DOMAIN Cases}
ContextOf(id) ==
    Context(evidence_items[id], Cases[evidence_items[id].case_id], now)

\* C24: for every rule of the engine, every context and every permutation
\* of the rule's condition list, evaluateConditions gives the same boolean
\* as for the list itself.
C24_OrderIrrelevant ==
    \A k \in DOMAIN rules :
        \A id \in ContextIds :
            \A conditions \in Reorderings(rules[k].conditions) :
                ConditionsOutcome(conditions, ContextOf(id))
                    = ConditionsOutcome(rules[k].conditions, ContextOf(id))

\* Field paths: of a field that is there, of a column that may be NULL, of
\* a top-level key the context lacks, and through segments that are missing
MissingSegmentPaths ==
    {"evidence.location.lat", "case.warrant.search_start", "subject.name"}
PathInputs ==
    MissingSegmentPaths \cup {"evidence.type", "evidence.timestamp", "missing"}

Exists(v) == evaluateCondition([operator |-> "exists", value |-> Undef], v)
NotExists(v) == evaluateCondition([operator |-> "not_exists", value |-> Undef], v)

\* The rule compiled from DocAbsentPath is in the engine
AbsentPathRules ==
    {rules[k].id : k \in {k \in DOMAIN rules : rules[k].yaml = DocAbsentPath[2]}}

HasBothLists(doc) ==
    /\ TypeOf(Prop(doc, "when")) = "array"
    /\ TypeOf(Prop(doc, "conditions")) = "array"

\* Every entry of the list evaluates true against the context
ListTrue(list, context) ==
    AllConditionsTrue([conditions |-> parseConditions(list)], context)

\* C29: a rule whose document has a when list and a conditions list
\* triggers on an evidence item only if every entry of both lists evaluates
\* true; the rule of R-010's document does not trigger on an item whose
\* timestamp is not in the future.
C29_BothListsDecide ==
    engineCall.outcome = "evaluated" =>
        \A k \in DOMAIN engineCall.triggered :
            LET doc == RuleOfId(engineCall.triggered[k]).yaml IN
            HasBothLists(doc) =>
                /\ ListTrue(Prop(doc, "when"), CallContext(engineCall))
                /\ ListTrue(Prop(doc, "conditions"), CallContext(engineCall))

----------------------------------------------------------------------------
(* Definitions that fail to compile: C21                                   *)

Compiles(def) == ~CompileThrows(def)

\* C21: a loadRules that completes leaves in the rule set exactly the rules
\* of the definitions it read that compiled, in the order read: a definition
\* that fails to parse or compile is left out and the others are loaded.
C21_FailingDefinitionSkipped ==
    [][\A l \in Loaders :
          (loadProc[l].pc = "assign" /\ loadProc'[l].pc = "idle") =>
             LET good == SelectSeq(loadProc[l].rows, Compiles) IN
             /\ Len(rules') = Len(good)
             /\ \A k \in DOMAIN good : rules'[k] = CompileRule(good[k])]_vars

\* a load has met a definition that does not parse and loaded the other one
C21_Witness ==
    /\ Len(rule_defs) = 2
    /\ rule_defs[1].yaml_definition = YamlError
    /\ Compiles(rule_defs[2])
    /\ RuleIds(rules) = <<rule_defs[2].id>>

----------------------------------------------------------------------------
(* processCase and changes of the rule store: C22, C23, C30                *)

\* The pairs of ids of S whose first item was inserted before the second
InsertionOrder(S) ==
    {pair \in S \X S :
        evidence_items[pair[1]].created_at < evidence_items[pair[2]].created_at}

\* C22: a processCase that returns has called processEvidence exactly once
\* for every evidence item of the case and for no other, one after the
\* other, in the order the items were inserted.
C22_EachItemOnceInInsertionOrder ==
    caseCall.outcome = "returned" =>
        caseCall.processed =
            OrderedIds(ItemsOfCase(caseCall.caseId),
                       InsertionOrder(ItemsOfCase(caseCall.caseId)))

\* a loadRules call completes in this step
LoadCompletes ==
    \E l \in Loaders : loadProc[l].pc = "assign" /\ loadProc'[l].pc = "idle"

\* C23: the rule set changes only when a loadRules completes: neither
\* processEvidence, processCase nor a change of the store changes it, and
\* a processEvidence during which no load completed has evaluated exactly
\* the rules of the set loaded last, whatever the store holds by then.
C23_StoreChangesWaitForLoad ==
    [][/\ rules' # rules => LoadCompletes
       /\ (/\ engineCall' # engineCall
           /\ engineCall'.outcome = "evaluated"
           /\ Cardinality(engineCall'.seen) = 1)
          => engineCall'.evaluated = RuleIds(rules)]_vars

\* a definition was deactivated, no loadRules begun after that has
\* completed, and a processEvidence that began later still raised its alert
C23_Witness ==
    /\ Len(rule_defs) = 1
    /\ ~rule_defs[1].active
    /\ rule_defs[1].id \notin retired
    /\ \A l \in Loaders : loadProc[l].pc = "idle"
    /\ rule_defs[1].updated_at < engineCall.t
    /\ engineCall.triggered = <<rule_defs[1].id>>

\* C30: once a definition has been deactivated and a loadRules begun after
\* that has completed, the store still holds the definition, inactive, and
\* the rule is not in the engine's rule set, until it is activated again.
C30_DeactivatedStaysOut ==
    \A id \in retired :
        /\ \E i \in DOMAIN rule_defs :
              rule_defs[i].id = id /\ ~rule_defs[i].active
        /\ \A k \in DOMAIN rules : rules[k].id # id

----------------------------------------------------------------------------
(* Verification leaves the log alone: C27                                  *)

\* a verifyIntegrity call returns in this step
VerifyReturns ==
    auditCall' # auditCall /\ auditCall'.op = "verifyIntegrity"

============================================================================
